---------------------------- MODULE Spec2Model ----------------------------
(***************************************************************************)
(* Model of the madara synchronisation core:                               *)
(*   - the versioned contract-state store (crates/client/db/contract_db.rs)*)
(*   - the L2 sync pipeline              (crates/client/sync/src/l2.rs)    *)
(* Keys and values are modelled at the byte level: a history key is the    *)
(* entity key (32 or 64 bytes) followed by the 4-byte big-endian block     *)
(* number, and lookups go through the reverse prefix scan of the code.     *)
(***************************************************************************)
EXTENDS Integers, Sequences, FiniteSets, TLC

VARIABLES
    db,               \* rocksdb: column name -> (key bytes -> value bytes)
    latest_block_n,   \* sync tip read by get_latest_block_n: <<>> or <<n>>
    hist,             \* history of apply_block: column -> (<<E, N>> -> last value written)
    overlay,          \* history of apply_pending since the last clear: column -> (E -> value)
    applied,          \* the apply_block calls that returned Ok: a set of <<N, diff>>
    block_info,       \* the block infos stored: block number -> DeoxysBlockInfo
    pc,               \* task -> where it stands: "init", a suspension point, "ok", "err", "aborted", "panicked"
    sync_ret,         \* sync(): "idle" before the call, "joining", then "Ok" or "Err"
    sync_error,       \* the task whose error sync returned, or "none"
    stop_on_sync,     \* L2SyncConfig.stop_on_sync
    backup_every_n_blocks,    \* L2SyncConfig.backup_every_n_blocks: <<>> or <<n>>
    provider,         \* the gateway: the state diffs its pending block can carry
    fetch_queue,      \* the fetches in flight, oldest first: <<block number, "run" | "done" | "not_found">>
    telemetry,        \* the block.import messages sent, oldest first: <<best, height>>
    config,           \* starting_block and exex_manager as sync was called with them, and the
                      \* L2SyncConfig fields first_block, n_blocks_to_sync, ignore_block_order
    cancellation_token,   \* the shared CancellationToken: cancelled or not
    blocked_at_cancel,    \* history: the token was cancelled by its owner while the conversion
                          \* task was sending on a full block_conv and the pending task waiting
    fetch_stream,     \* mpsc channel from the fetch task to the conversion task
    block_conv,       \* mpsc channel from the conversion task to the verify-and-apply task
    once_caught_up_cb,    \* the oneshot: "pending", "sent" or "dropped"
    next_block,       \* l2_fetch_task: the next block number to send
    stream_ended,     \* conversion_stream has yielded None
    in_progress_queue,    \* buffered(10): the conversions in progress, oldest first, <<block, state>>
    conv_block,       \* the block the conversion task is sending: <<>> or <<n>>
    importing,        \* the block the verify-and-apply task received last: <<>> or <<n>>
    imported,         \* the blocks verify_apply imported, in order
    pending_polls,    \* cycles of the pending poll loop so far
    pending_cycle,    \* how the latest cycle of the poll loop ended
    first_error,      \* the first task that returned an error, or "none"
    exex_pc,          \* exex_pragma_dispatch: "init", "next" (at notifications.next()), "ok", "err", "panicked"
    feed_ids,         \* the feed list of the ExEx: the number of feeds, then the feeds
    notifications,    \* the block numbers of the notifications the ExEx received, oldest first
    events            \* the block numbers of the FinishedHeight events the ExEx sent, oldest first

storeVars == <<db, latest_block_n, hist, overlay, applied, block_info>>

syncVars == <<pc, sync_ret, sync_error, stop_on_sync, backup_every_n_blocks, provider, config, telemetry, fetch_queue, cancellation_token,
              blocked_at_cancel, fetch_stream, block_conv, once_caught_up_cb,
              next_block, stream_ended, in_progress_queue, conv_block, importing,
              imported, pending_polls, pending_cycle, first_error>>

exexVars == <<exex_pc, feed_ids, notifications, events>>

vars == <<storeVars, syncVars, exexVars>>

-----------------------------------------------------------------------------
(* Bounds of the model *)

\* block numbers range over 0..MaxBlockN
MaxBlockN == 2

\* stands for DB_UPDATES_BATCH_SIZE (imported at contract_db.rs:16, defined outside
\* the sources at hand): the length of a par_chunks chunk, scaled to the diffs below
DB_UPDATES_BATCH_SIZE == 1

\* the chain the fetch task reads holds the blocks 0..NBlocks-1
NBlocks == 5

\* the pending poll loop is followed for MaxPolls cycles
MaxPolls == 1

-----------------------------------------------------------------------------
(* Program constants *)

CONTRACT_STORAGE_PREFIX_EXTRACTOR == 64
CONTRACT_CLASS_HASH_PREFIX_EXTRACTOR == 32
CONTRACT_NONCES_PREFIX_EXTRACTOR == 32

\* width of Felt::to_bytes_be()
FELT_LEN == 32

\* width of u32::to_be_bytes()
BLOCK_N_LEN == 4

\* mpsc::channel(8) of fetch_stream
FETCH_STREAM_CAPACITY == 8

\* mpsc::channel(4) of block_conv
BLOCK_CONV_CAPACITY == 4

\* conversion_stream.buffered(10)
CONVERSION_BUFFERED == 10

\* const LAST_KEY: &[u8] = &[0xFF; 64]
LAST_KEY == [i \in 1..64 |-> 255]

-----------------------------------------------------------------------------
(* Option values: None is the empty tuple, Some(v) a 1-tuple *)

None == <<>>
Some(v) == <<v>>

Min(a, b) == IF a < b THEN a ELSE b

-----------------------------------------------------------------------------
(* Byte encodings *)

\* 256^k for the byte positions a modelled number reaches
Pow256(k) == CASE k = 0 -> 1 [] k = 1 -> 256 [] k = 2 -> 65536 [] k = 3 -> 16777216

\* byte k (0 = least significant) of x; the numbers of the model are below 2^31
ByteOf(x, k) == IF k > 3 THEN 0 ELSE (x \div Pow256(k)) % 256

\* big-endian encoding of x on len bytes (Felt::to_bytes_be, u32::to_be_bytes)
BytesBe(x, len) == [i \in 1..len |-> ByteOf(x, len - i)]

\* the number a big-endian byte string encodes (Felt::from_bytes_be)
RECURSIVE FromBytesBeFrom(_, _)
FromBytesBeFrom(bytes, i) ==
    IF i > Len(bytes) THEN 0
    ELSE bytes[i] * Pow256(Len(bytes) - i) + FromBytesBeFrom(bytes, i + 1)

FromBytesBe(bytes) ==
    LET nonzero == {i \in DOMAIN bytes : bytes[i] # 0}
    IN  IF nonzero = {} THEN 0
        ELSE FromBytesBeFrom(bytes, CHOOSE i \in nonzero : \A j \in nonzero : i <= j)

\* the encodings of the field elements the inputs below are made of, computed once
FeltBytes == [felt \in {0, 1, 2, 3, 256} |-> BytesBe(felt, FELT_LEN)]

\* Felt::to_bytes_be
to_bytes_be(felt) ==
    IF felt \in DOMAIN FeltBytes THEN FeltBytes[felt] ELSE BytesBe(felt, FELT_LEN)

\* little-endian encoding of x on len bytes
BytesLe(x, len) == [i \in 1..len |-> ByteOf(x, i - 1)]

\* mutant: the block number is appended with to_le_bytes
block_n_to_le_bytes(block_n) == BytesLe(block_n, BLOCK_N_LEN)

block_n_to_be_bytes(block_n) == BytesBe(block_n, BLOCK_N_LEN)

\* bincode::serialize / bincode::deserialize of a Felt value: its 32 big-endian bytes
bincode_serialize(value) == to_bytes_be(value)
bincode_deserialize(bytes) == FromBytesBe(bytes)

make_storage_key_prefix(contract_address, storage_key) ==
    to_bytes_be(contract_address) \o to_bytes_be(storage_key)

-----------------------------------------------------------------------------
(* Columns *)

ConfirmedColumns == {"ContractToClassHashes", "ContractToNonces", "ContractStorage"}
PendingColumns ==
    {"PendingContractToClassHashes", "PendingContractToNonces", "PendingContractStorage"}
Columns == ConfirmedColumns \cup PendingColumns

\* length of the fixed prefix extractor each history column is created with
PrefixLen(col) ==
    CASE col = "ContractToClassHashes" -> CONTRACT_CLASS_HASH_PREFIX_EXTRACTOR
      [] col = "ContractToNonces" -> CONTRACT_NONCES_PREFIX_EXTRACTOR
      [] col = "ContractStorage" -> CONTRACT_STORAGE_PREFIX_EXTRACTOR

\* the closures passed as make_bin_prefix: |k| k.to_bytes_be() for a contract
\* address, make_storage_key_prefix for an (address, slot) pair
make_bin_prefix(col, k) ==
    IF col = "ContractStorage" THEN make_storage_key_prefix(k[1], k[2])
    ELSE to_bytes_be(k)

\* bincode::serialize(k) of the entity key: a Felt is its 32 bytes, a pair of
\* Felts the two encodings one after the other
bincode_serialize_key(col, k) ==
    IF col = "ContractStorage" THEN to_bytes_be(k[1]) \o to_bytes_be(k[2])
    ELSE to_bytes_be(k)

-----------------------------------------------------------------------------
(* The ordered key-value store *)

\* the first index in lo..hi at which a and b differ, knowing there is one
RECURSIVE FirstDiff(_, _, _, _)
FirstDiff(a, b, lo, hi) ==
    IF lo = hi THEN lo
    ELSE LET mid == (lo + hi) \div 2
         IN  IF SubSeq(a, lo, mid) = SubSeq(b, lo, mid)
             THEN FirstDiff(a, b, mid + 1, hi)
             ELSE FirstDiff(a, b, lo, mid)

\* bytewise comparator: a <= b (the first differing byte decides, and a proper
\* prefix comes first)
LexLeq(a, b) ==
    LET n == Min(Len(a), Len(b))
    IN  IF SubSeq(a, 1, n) = SubSeq(b, 1, n) THEN Len(a) <= Len(b)
        ELSE LET i == FirstDiff(a, b, 1, n) IN a[i] < b[i]

LexLt(a, b) == a # b /\ LexLeq(a, b)

\* batch.put_cf
Put(m, k, v) == [x \in (DOMAIN m) \cup {k} |-> IF x = k THEN v ELSE m[x]]

\* get_pinned_cf
GetCf(m, k) == IF k \in DOMAIN m THEN Some(m[k]) ELSE None

\* delete_range_cf_opt(col, from, to): removes the keys in [from, to)
DeleteRange(m, from, to) ==
    [x \in {k \in DOMAIN m : ~(LexLeq(from, k) /\ LexLt(k, to))} |-> m[x]]

\* the greatest key of a non-empty set of keys
RECURSIVE GreatestKey(_)
GreatestKey(keys) ==
    LET k == CHOOSE x \in keys : TRUE
    IN  IF keys = {k} THEN k
        ELSE LET g == GreatestKey(keys \ {k})
             IN  IF LexLeq(g, k) THEN k ELSE g

\* the key an iterator in reverse mode is positioned on by IteratorMode::From:
\* the greatest key <= start_at
SeekForPrev(m, start_at) ==
    LET below == {k \in DOMAIN m : LexLeq(k, start_at)}
    IN  IF below = {} THEN None ELSE Some(GreatestKey(below))

KeyPrefix(col, key) == SubSeq(key, 1, PrefixLen(col))

\* mutant: the iterator without prefix_same_as_start (total order seek)
IterNextTotalOrder(col, m, start_at) ==
    LET at == SeekForPrev(m, start_at)
    IN  IF at = None THEN None ELSE Some(<<at[1], m[at[1]]>>)

\* iterator_cf_opt(.., options with prefix_same_as_start, From(start_at, Reverse))
\* followed by iter.next(): the entry found, unless it lies outside the prefix of start_at
IterNext(col, m, start_at) ==
    LET at == SeekForPrev(m, start_at)
    IN  IF at = None THEN None
        ELSE IF KeyPrefix(col, at[1]) # KeyPrefix(col, start_at) THEN None
        ELSE Some(<<at[1], m[at[1]]>>)

-----------------------------------------------------------------------------
(* Block ids *)

DbBlockIdPending == [tag |-> "Pending"]
DbBlockIdBlockN(n) == [tag |-> "BlockN", block_n |-> n]

get_latest_block_n == latest_block_n

\* a u64 block number is the pair <<hi, lo>> of its two 32-bit halves
U64(hi, lo) == <<hi, lo>>

\* mutant: `block_n as u32`, the low half whatever the high half is
u32_truncate(block_n) == Some(block_n[2])

\* u32::try_from(block_n): the low half when the high half is zero
u32_try_from(block_n) == IF block_n[1] = 0 THEN Some(block_n[2]) ELSE None

\* Result values
Ok(v) == <<"Ok", v>>
Err(e) == <<"Err", e>>
InvalidBlockNumber == "InvalidBlockNumber"

-----------------------------------------------------------------------------
(* Reads *)

\* the history part of resolve_history_kv (from "We try to find history values")
resolve_history(d, nonpending_col, k, block_n) ==
    LET bin_prefix == make_bin_prefix(nonpending_col, k)
        start_at == bin_prefix \o block_n_to_be_bytes(block_n)
        res == IterNext(nonpending_col, d[nonpending_col], start_at)
    IN  IF res = None THEN None ELSE Some(bincode_deserialize(res[1][2]))

\* mutant: a miss in the pending column ends the pending get
resolve_history_kv_no_fallback(d, latest, id, pending_col, nonpending_col, k) ==
    IF id.tag = "Pending"
    THEN LET res == GetCf(d[pending_col], bincode_serialize_key(nonpending_col, k))
         IN  IF res # None THEN Some(bincode_deserialize(res[1])) ELSE None
    ELSE resolve_history(d, nonpending_col, k, id.block_n)

resolve_history_kv(d, latest, id, pending_col, nonpending_col, k) ==
    IF id.tag = "Pending"
    THEN LET res == GetCf(d[pending_col], bincode_serialize_key(nonpending_col, k))
         IN  IF res # None THEN Some(bincode_deserialize(res[1]))
             ELSE IF latest = None THEN None
             ELSE resolve_history(d, nonpending_col, k, latest[1])
    ELSE resolve_history(d, nonpending_col, k, id.block_n)

get_contract_class_hash_at(id, contract_addr) ==
    resolve_history_kv(db, get_latest_block_n, id,
        "PendingContractToClassHashes", "ContractToClassHashes", contract_addr)

get_contract_nonce_at(id, contract_addr) ==
    resolve_history_kv(db, get_latest_block_n, id,
        "PendingContractToNonces", "ContractToNonces", contract_addr)

get_contract_storage_at(id, contract_addr, key) ==
    resolve_history_kv(db, get_latest_block_n, id,
        "PendingContractStorage", "ContractStorage", <<contract_addr, key>>)

\* the getter of a history column, by column name
GetAt(col, id, k) ==
    CASE col = "ContractToClassHashes" -> get_contract_class_hash_at(id, k)
      [] col = "ContractToNonces" -> get_contract_nonce_at(id, k)
      [] col = "ContractStorage" -> get_contract_storage_at(id, k[1], k[2])

\* resolve_history_kv for DbBlockId::BlockN(block_n), block_n a u64: the block
\* number has to fit a u32 before the history is looked up
GetAtBlockN(col, block_n, k) ==
    LET n == u32_try_from(block_n)
    IN  IF n = None THEN Err(InvalidBlockNumber)
        ELSE Ok(GetAt(col, DbBlockIdBlockN(n[1]), k))

-----------------------------------------------------------------------------
(* Writes *)

\* slice.par_chunks(size): the consecutive chunks of at most size elements
par_chunks(updates, size) ==
    [i \in 1..((Len(updates) + size - 1) \div size) |->
        SubSeq(updates, (i - 1) * size + 1, Min(i * size, Len(updates)))]

\* chunk.iter().map(|(k, v)| (k.to_bytes_be(), *v)), and for the storage column
\* the 64-byte key built from (k1, k2)
KeyedChunk(col, chunk) ==
    [i \in DOMAIN chunk |-> <<make_bin_prefix(col, chunk[i][1]), chunk[i][2]>>]

\* mutant: the record is keyed by the entity alone, without the block number
RECURSIVE write_chunk_unversioned(_, _, _)
write_chunk_unversioned(m, block_number, chunk) ==
    IF chunk = <<>> THEN m
    ELSE write_chunk_unversioned(
            Put(m, chunk[1][1] \o block_n_to_be_bytes(0),
                   bincode_serialize(chunk[1][2])),
            block_number, Tail(chunk))

\* mutant: a put adds to the value already stored under the key
RECURSIVE write_chunk_merge(_, _, _)
write_chunk_merge(m, block_number, chunk) ==
    IF chunk = <<>> THEN m
    ELSE LET key == chunk[1][1] \o block_n_to_be_bytes(block_number)
             old == IF key \in DOMAIN m THEN bincode_deserialize(m[key]) ELSE 0
         IN  write_chunk_merge(
                Put(m, key, bincode_serialize(old + chunk[1][2])),
                block_number, Tail(chunk))

\* write_chunk of contract_db_store_block: one batch, each key followed by the
\* big-endian block number; a later put of a batch overrides an earlier one
RECURSIVE write_chunk(_, _, _)
write_chunk(m, block_number, chunk) ==
    IF chunk = <<>> THEN m
    ELSE write_chunk(
            Put(m, chunk[1][1] \o block_n_to_be_bytes(block_number),
                   bincode_serialize(chunk[1][2])),
            block_number, Tail(chunk))

\* write_chunk of contract_db_store_pending: the key alone
RECURSIVE write_chunk_pending(_, _)
write_chunk_pending(m, chunk) ==
    IF chunk = <<>> THEN m
    ELSE write_chunk_pending(
            Put(m, chunk[1][1], bincode_serialize(chunk[1][2])), Tail(chunk))

\* try_for_each_init over the chunks of one column; `written` is the set of chunk
\* indices whose batch reached the database (all of them when no write fails)
RECURSIVE WriteChunks(_, _, _, _, _, _)
WriteChunks(m, col, block_number, chunks, written, i) ==
    IF i > Len(chunks) THEN m
    ELSE WriteChunks(
            IF i \in written
            THEN write_chunk(m, block_number, KeyedChunk(col, chunks[i]))
            ELSE m,
            col, block_number, chunks, written, i + 1)

RECURSIVE WriteChunksPending(_, _, _, _)
WriteChunksPending(m, col, chunks, i) ==
    IF i > Len(chunks) THEN m
    ELSE WriteChunksPending(
            write_chunk_pending(m, KeyedChunk(col, chunks[i])), col, chunks, i + 1)

\* the three columns in the order contract_db_store_block writes them, with the
\* argument each one takes its updates from
StoreOrder == <<"ContractToClassHashes", "ContractToNonces", "ContractStorage">>

UpdatesOf(diff, col) ==
    CASE col = "ContractToClassHashes" -> diff.contract_class_updates
      [] col = "ContractToNonces" -> diff.contract_nonces_updates
      [] col = "ContractStorage" -> diff.contract_kv_updates

ChunksOf(diff, col) == par_chunks(UpdatesOf(diff, col), DB_UPDATES_BATCH_SIZE)

\* contract_db_store_block returning Ok(()): every chunk of every column is written
contract_db_store_block(d, block_number, diff) ==
    [col \in Columns |->
        IF col \in ConfirmedColumns
        THEN WriteChunks(d[col], col, block_number, ChunksOf(diff, col),
                         DOMAIN ChunksOf(diff, col), 1)
        ELSE d[col]]

\* contract_db_store_block returning Err from db.write_opt in column StoreOrder[failing]:
\* the columns before it are written, of the failing column the chunks in `written`
\* (the parallel chunks that completed before the error), the columns after it not at all
contract_db_store_block_err(d, block_number, diff, failing, written) ==
    [col \in Columns |->
        IF col \in ConfirmedColumns
        THEN LET pos == CHOOSE p \in DOMAIN StoreOrder : StoreOrder[p] = col
             IN  WriteChunks(d[col], col, block_number, ChunksOf(diff, col),
                    IF pos < failing THEN DOMAIN ChunksOf(diff, col)
                    ELSE IF pos = failing THEN written
                    ELSE {}, 1)
        ELSE d[col]]

\* contract_db_store_block called with a u64 block number: the result and the
\* store it leaves; the block number has to fit a u32 before anything is written
contract_db_store_block_u64(d, block_number, diff) ==
    LET n == u32_try_from(block_number)
    IN  IF n = None THEN [result |-> Err(InvalidBlockNumber), db |-> d]
        ELSE [result |-> Ok(<<>>), db |-> contract_db_store_block(d, n[1], diff)]

\* the column contract_db_store_pending takes for each group of updates
\* (get_column argument of each try_for_each_init)
StorePendingColumn(col) == col

\* contract_db_store_pending returning Ok(())
contract_db_store_pending(d, diff) ==
    LET target == {StorePendingColumn(c) : c \in ConfirmedColumns}
        src(col) == CHOOSE c \in ConfirmedColumns : StorePendingColumn(c) = col
    IN  [col \in Columns |->
            IF col \in target
            THEN WriteChunksPending(d[col], src(col), ChunksOf(diff, src(col)), 1)
            ELSE d[col]]

\* contract_db_clear_pending: delete_range_cf_opt(col, [], LAST_KEY) on the three
\* pending columns
contract_db_clear_pending(d) ==
    [col \in Columns |->
        IF col \in PendingColumns THEN DeleteRange(d[col], <<>>, LAST_KEY)
        ELSE d[col]]

-----------------------------------------------------------------------------
(* Inputs *)

BlockNumbers == 0..MaxBlockN

\* contract addresses (class hash and nonce entities) and (address, slot) pairs
ContractAddrs == {1, 256}
\* the backup intervals sync is called with
BackupIntervals == {0, 1, 2}

StorageKeys == {<<1, 1>>, <<1, 2>>}

Entities(col) == IF col = "ContractStorage" THEN StorageKeys ELSE ContractAddrs

Diff(class, nonces, kv) ==
    [contract_class_updates |-> class,
     contract_nonces_updates |-> nonces,
     contract_kv_updates |-> kv]

\* state diffs of confirmed blocks; the keys of one column of a diff are distinct
StateDiffs ==
    { Diff(<< <<1, 1>> >>, << <<1, 1>> >>, << <<<<1, 1>>, 1>> >>),
      Diff(<< <<1, 2>>, <<256, 2>> >>, <<>>, << <<<<1, 2>>, 2>> >>) }

\* u64 block numbers, those above u32::MAX included
U64BlockNumbers == {U64(hi, lo) : hi \in {0, 1, 256}, lo \in BlockNumbers}

\* the starting_block argument of sync: none, or the block the sync is forced to
StartingBlocks == {None, Some(0), Some(2)}

\* the state diff of a block without state updates
EmptyDiff == Diff(<<>>, <<>>, <<>>)

\* state diffs of pending blocks
PendingDiffs ==
    { Diff(<< <<1, 3>> >>, << <<1, 3>> >>, << <<<<1, 1>>, 3>> >>),
      Diff(<< <<256, 3>> >>, <<>>, <<>>) }

-----------------------------------------------------------------------------
(* Histories kept beside the store, to state the claims *)

RECURSIVE HistPut(_, _, _)
HistPut(h, block_n, updates) ==
    IF updates = <<>> THEN h
    ELSE HistPut(Put(h, <<updates[1][1], block_n>>, updates[1][2]), block_n, Tail(updates))

HistApply(h, block_n, diff) ==
    [col \in ConfirmedColumns |-> HistPut(h[col], block_n, UpdatesOf(diff, col))]

RECURSIVE OverlayPut(_, _)
OverlayPut(o, updates) ==
    IF updates = <<>> THEN o
    ELSE OverlayPut(Put(o, updates[1][1], updates[1][2]), Tail(updates))

OverlayApply(o, diff) ==
    [col \in ConfirmedColumns |-> OverlayPut(o[col], UpdatesOf(diff, col))]

EmptyMap == [x \in {} |-> 0]

-----------------------------------------------------------------------------
(* Store operations *)

StoreInit ==
    /\ db = [col \in Columns |-> EmptyMap]
    /\ latest_block_n = None
    /\ hist = [col \in ConfirmedColumns |-> EmptyMap]
    /\ overlay = [col \in ConfirmedColumns |-> EmptyMap]
    /\ applied = {}
    /\ block_info = EmptyMap

\* block hashes: the hash of block n, and the parent hash of the genesis block
BlockHash(n) == n + 1
ZERO == 0

\* DeoxysBlockInfo: the header fields a block is stored with, and its hash
DeoxysBlockInfo(block_number, parent_block_hash, block_hash) ==
    [block_number |-> block_number, parent_block_hash |-> parent_block_hash,
     block_hash |-> block_hash]

\* backend.store_block(block, state_diff, ..) of a block that is not pending: its
\* info is stored under its number, contract_db_store_block stores its state diff,
\* then the sync tip moves to the block
store_block(info, diff) ==
    /\ db' = contract_db_store_block(db, info.block_number, diff)
    /\ block_info' = Put(block_info, info.block_number, info)
    /\ latest_block_n' = Some(info.block_number)
    /\ hist' = HistApply(hist, info.block_number, diff)
    /\ applied' = applied \cup {<<info.block_number, diff>>}
    /\ UNCHANGED overlay

\* apply_block(block_n, diff): the block of number block_n of the chain is stored
apply_block(block_n, diff) ==
    store_block(DeoxysBlockInfo(block_n,
                                IF block_n = 0 THEN ZERO ELSE BlockHash(block_n - 1),
                                BlockHash(block_n)), diff)

\* apply_pending(diff): contract_db_store_pending
apply_pending(diff) ==
    /\ db' = contract_db_store_pending(db, diff)
    /\ overlay' = OverlayApply(overlay, diff)
    /\ UNCHANGED <<latest_block_n, hist, applied, block_info>>

\* clear_pending(): contract_db_clear_pending
clear_pending ==
    /\ db' = contract_db_clear_pending(db)
    /\ overlay' = [col \in ConfirmedColumns |-> EmptyMap]
    /\ UNCHANGED <<latest_block_n, hist, applied, block_info>>

\* apply_block with a u64 block number: nothing happens to the store when
\* contract_db_store_block returns an error
apply_block_u64(block_n, diff) ==
    IF contract_db_store_block_u64(db, block_n, diff).result = Ok(<<>>)
    THEN apply_block(block_n[2], diff)
    ELSE UNCHANGED storeVars

\* apply_block(block_n, diff) failing inside contract_db_store_block: db.write_opt
\* returns an error for a chunk of column StoreOrder[failing]; the error is returned
\* to the caller and the sync tip does not move
apply_block_err(block_n, diff, failing, written) ==
    /\ db' = contract_db_store_block_err(db, block_n, diff, failing, written)
    /\ UNCHANGED <<latest_block_n, hist, overlay, applied, block_info>>

-----------------------------------------------------------------------------
(* The L2 sync pipeline: sync() of l2.rs spawns four tasks into a JoinSet   *)
(*   l2_fetch_task ==fetch_stream==> l2_block_conversion_task               *)
(*                 ==block_conv==> l2_verify_and_apply_task                 *)
(* and l2_pending_block_task, which waits for the once_caught_up signal.    *)
(* A block is its block number; first_block is 0.                           *)

Tasks == {"fetch", "conversion", "verify_apply", "pending"}

Exited(t) == pc[t] \in {"ok", "err", "aborted", "panicked"}

Spawned(t) == pc[t] # "init" /\ ~Exited(t)

\* a task returns, how = "ok" or "err", or panics, how = "panicked", which the
\* JoinSet reports as a JoinError; the JoinSet hands out the results in the order
\* the tasks finished, so the first error to be joined is the first returned
TaskExit(t, how) ==
    /\ pc' = [pc EXCEPT ![t] = how]
    /\ first_error' = IF how \in {"err", "panicked"} /\ first_error = "none" THEN t ELSE first_error

\* the ends of the two channels: an end is gone once the task holding it has
\* exited; the unfold stream holds the fetch_stream receiver and drops it when
\* the stream ends
fetch_stream_sender_closed == Exited("fetch")
fetch_stream_receiver_closed == stream_ended \/ Exited("conversion")
block_conv_sender_closed == Exited("conversion")
block_conv_receiver_closed == Exited("verify_apply")

\* wait_or_graceful_shutdown(future, token) and channel_wait_or_graceful_shutdown
\* (mp_utils) resolve to None once the token is cancelled: the wait can end so
graceful_shutdown == cancellation_token

\* sync has returned an error and with it dropped the JoinSet, which aborts the
\* tasks still in it: a task suspended at that moment is not polled again (a step
\* it was in the middle of counts as taken before)
JoinSetDropped == sync_ret = "Err"

\* dropping the oneshot sender held by the fetch task without a send
DropSender(cb) == IF cb = "pending" THEN "dropped" ELSE cb

RemoveAt(q, i) == SubSeq(q, 1, i - 1) \o SubSeq(q, i + 1, Len(q))

\* mutant: buffer_unordered, which yields any finished conversion (the youngest here)
buffer_unordered_next(q) ==
    LET finished == {i \in DOMAIN q : q[i][2] = "done"}
    IN  IF finished = {} THEN 0
        ELSE CHOOSE i \in finished : \A j \in finished : j <= i

\* buffered(10).next(): the position in the queue of the conversion whose output
\* is yielded, 0 when none is ready: the oldest conversion, once it has finished
buffered_next(q) == IF q # <<>> /\ q[1][2] = "done" THEN 1 ELSE 0

\* mutant: the receiver sees only a sent value, not the drop of the sender
sync_finished_cb_sent_only(cb) == IF cb = "sent" THEN "Ok" ELSE "wait"

\* mutant: the drop of the sender is taken for the signal
sync_finished_cb_ignore_err(cb) == IF cb = "pending" THEN "wait" ELSE "Ok"

\* sync_finished_cb.await of l2_pending_block_task
sync_finished_cb_await(cb) ==
    CASE cb = "sent" -> "Ok"
      [] cb = "dropped" -> "Err"
      [] OTHER -> "wait"

SyncInit ==
    /\ pc = [t \in Tasks |-> "init"]
    /\ sync_ret = "idle"
    /\ sync_error = "none"
    /\ stop_on_sync = FALSE
    /\ backup_every_n_blocks = None
    /\ provider = {}
    /\ fetch_queue = <<>>
    /\ telemetry = <<>>
    /\ config = [starting_block |-> None, exex_manager |-> None, first_block |-> 0,
                 n_blocks_to_sync |-> None, ignore_block_order |-> FALSE]
    /\ cancellation_token = FALSE
    /\ blocked_at_cancel = FALSE
    /\ fetch_stream = <<>>
    /\ block_conv = <<>>
    /\ once_caught_up_cb = "pending"
    /\ next_block = 0
    /\ stream_ended = FALSE
    /\ in_progress_queue = <<>>
    /\ conv_block = None
    /\ importing = None
    /\ imported = <<>>
    /\ pending_polls = 0
    /\ pending_cycle = "none"
    /\ first_error = "none"

\* backend.get_block_n(Latest): the sync tip
get_block_n_latest == get_latest_block_n

\* mutant: the sync starts again at the tip
starting_block_at_tip(starting_block) ==
    IF starting_block # None THEN <<starting_block[1], TRUE>>
    ELSE <<IF get_block_n_latest = None THEN 0 ELSE get_block_n_latest[1], FALSE>>

\* (starting_block, ignore_block_order) of sync: the forced block, unordered,
\* else the block after the tip, or genesis
starting_block_and_order(starting_block) ==
    IF starting_block # None THEN <<starting_block[1], TRUE>>
    ELSE <<IF get_block_n_latest = None THEN 0 ELSE get_block_n_latest[1] + 1, FALSE>>

\* sync(): the starting block is settled, the channels and the oneshot are created
\* and the four tasks spawned
sync(stop, backup, gateway, starting_block, n_blocks, exex) ==
    /\ sync_ret = "idle"
    /\ sync_ret' = "joining"
    /\ stop_on_sync' = stop
    /\ backup_every_n_blocks' = backup
    /\ provider' = gateway
    /\ config' = [starting_block |-> starting_block,
                  exex_manager |-> exex,
                  first_block |-> starting_block_and_order(starting_block)[1],
                  n_blocks_to_sync |-> n_blocks,
                  ignore_block_order |-> starting_block_and_order(starting_block)[2]]
    /\ fetch_queue' = <<>>
    /\ telemetry' = <<>>
    /\ next_block' = starting_block_and_order(starting_block)[1]
    /\ pc' = [t \in Tasks |->
                CASE t = "fetch" -> "run"
                  [] t = "conversion" -> "next"
                  [] t = "verify_apply" -> "recv"
                  [] t = "pending" -> "start"]
    /\ UNCHANGED <<storeVars, exexVars, sync_error, cancellation_token, blocked_at_cancel,
                   fetch_stream, block_conv, once_caught_up_cb, stream_ended,
                   in_progress_queue, conv_block, importing, imported,
                   pending_polls, pending_cycle, first_error>>

\* the owner of the token (the service runner) cancels it
Cancel ==
    /\ sync_ret = "joining"
    /\ ~cancellation_token
    /\ cancellation_token' = TRUE
    /\ blocked_at_cancel' = (/\ pc["conversion"] = "send"
                             /\ Len(block_conv) = BLOCK_CONV_CAPACITY
                             /\ pc["pending"] = "wait")
    /\ UNCHANGED <<storeVars, pc, sync_ret, sync_error, stop_on_sync, backup_every_n_blocks, exexVars, provider, config, telemetry, fetch_queue, fetch_stream, block_conv,
                   once_caught_up_cb, next_block, stream_ended, in_progress_queue,
                   conv_block, importing, imported, pending_polls, pending_cycle, first_error>>

\* mutant: a send on a full fetch_stream overwrites the oldest block in it
FetchSendOverwrite(head) ==
    /\ pc["fetch"] = "run"
    /\ next_block < head
    /\ ~fetch_stream_receiver_closed
    /\ fetch_stream' = IF Len(fetch_stream) < FETCH_STREAM_CAPACITY
                     THEN Append(fetch_stream, next_block)
                     ELSE Append(Tail(fetch_stream), next_block)
    /\ next_block' = next_block + 1
    /\ UNCHANGED <<storeVars, pc, sync_ret, sync_error, stop_on_sync, backup_every_n_blocks, exexVars, provider, config, telemetry, fetch_queue, cancellation_token,
                   blocked_at_cancel, block_conv, once_caught_up_cb, stream_ended,
                   in_progress_queue, conv_block, importing, imported,
                   pending_polls, pending_cycle, first_error>>

\* l2_fetch_task: sends the next block of the chain into fetch_stream
FetchSendTo(head) ==
    /\ pc["fetch"] = "run"
    /\ next_block < head
    /\ ~fetch_stream_receiver_closed
    /\ Len(fetch_stream) < FETCH_STREAM_CAPACITY
    /\ fetch_stream' = Append(fetch_stream, next_block)
    /\ next_block' = next_block + 1
    /\ UNCHANGED <<storeVars, pc, sync_ret, sync_error, stop_on_sync, backup_every_n_blocks, exexVars, provider, config, telemetry, fetch_queue, cancellation_token,
                   blocked_at_cancel, block_conv, once_caught_up_cb, stream_ended,
                   in_progress_queue, conv_block, importing, imported,
                   pending_polls, pending_cycle, first_error>>

FetchSend == FetchSendTo(NBlocks)

\* l2_fetch_task: at the end of the chain it signals through the oneshot it was
\* given that the sync caught up
FetchCaughtUpAt(head) ==
    /\ pc["fetch"] = "run"
    /\ next_block = head
    /\ once_caught_up_cb = "pending"
    /\ once_caught_up_cb' = "sent"
    /\ UNCHANGED <<storeVars, pc, sync_ret, sync_error, stop_on_sync, backup_every_n_blocks, exexVars, provider, config, telemetry, fetch_queue, cancellation_token,
                   blocked_at_cancel, fetch_stream, block_conv, next_block,
                   stream_ended, in_progress_queue, conv_block, importing, imported,
                   pending_polls, pending_cycle, first_error>>

FetchCaughtUp == FetchCaughtUpAt(NBlocks)

\* l2_fetch_task returns Ok: on cancellation, when the receiver of fetch_stream is
\* gone, or at the end of the chain with stop_on_sync; the oneshot sender it holds
\* is used on the way out or dropped
FetchStopAt(head) ==
    /\ pc["fetch"] = "run"
    /\ \/ graceful_shutdown
       \/ fetch_stream_receiver_closed
       \/ next_block = head /\ stop_on_sync
    /\ TaskExit("fetch", "ok")
    /\ once_caught_up_cb' \in {DropSender(once_caught_up_cb), "sent"}
    /\ UNCHANGED <<storeVars, sync_ret, sync_error, stop_on_sync, backup_every_n_blocks, exexVars, provider, config, telemetry, fetch_queue, cancellation_token,
                   blocked_at_cancel, fetch_stream, block_conv, next_block,
                   stream_ended, in_progress_queue, conv_block, importing, imported,
                   pending_polls, pending_cycle>>

FetchStop == FetchStopAt(NBlocks)

\* l2_fetch_task returns an error of the provider
FetchFail ==
    /\ pc["fetch"] = "run"
    /\ next_block < NBlocks
    /\ TaskExit("fetch", "err")
    /\ once_caught_up_cb' = DropSender(once_caught_up_cb)
    /\ UNCHANGED <<storeVars, sync_ret, sync_error, stop_on_sync, backup_every_n_blocks, exexVars, provider, config, telemetry, fetch_queue, cancellation_token,
                   blocked_at_cancel, fetch_stream, block_conv, next_block,
                   stream_ended, in_progress_queue, conv_block, importing, imported,
                   pending_polls, pending_cycle>>

l2_fetch_task ==
    /\ ~JoinSetDropped
    /\ (FetchSend \/ FetchCaughtUp \/ FetchStop \/ FetchFail)

\* mutant: the conversion stream is polled for a block whatever the number of
\* conversions in progress
ConvPullUnbounded ==
    /\ pc["conversion"] = "next"
    /\ ~stream_ended
    /\ fetch_stream # <<>>
    /\ in_progress_queue' = Append(in_progress_queue, <<Head(fetch_stream), "run">>)
    /\ fetch_stream' = Tail(fetch_stream)
    /\ UNCHANGED <<storeVars, pc, sync_ret, sync_error, stop_on_sync, backup_every_n_blocks, exexVars, provider, config, telemetry, fetch_queue, cancellation_token,
                   blocked_at_cancel, block_conv, once_caught_up_cb, next_block,
                   stream_ended, conv_block, importing, imported, pending_polls, pending_cycle, first_error>>

\* conversion_stream: recv() on fetch_stream yields a block, whose pre_validate
\* future joins the at most CONVERSION_BUFFERED conversions in progress
ConvPull ==
    /\ pc["conversion"] = "next"
    /\ ~stream_ended
    /\ Len(in_progress_queue) < CONVERSION_BUFFERED
    /\ fetch_stream # <<>>
    /\ in_progress_queue' = Append(in_progress_queue, <<Head(fetch_stream), "run">>)
    /\ fetch_stream' = Tail(fetch_stream)
    /\ UNCHANGED <<storeVars, pc, sync_ret, sync_error, stop_on_sync, backup_every_n_blocks, exexVars, provider, config, telemetry, fetch_queue, cancellation_token,
                   blocked_at_cancel, block_conv, once_caught_up_cb, next_block,
                   stream_ended, conv_block, importing, imported, pending_polls, pending_cycle, first_error>>

\* conversion_stream ends: channel_wait_or_graceful_shutdown(recv) is None on
\* cancellation, or when fetch_stream is empty and its sender gone
ConvStreamEnd ==
    /\ pc["conversion"] = "next"
    /\ ~stream_ended
    /\ Len(in_progress_queue) < CONVERSION_BUFFERED
    /\ \/ graceful_shutdown
       \/ fetch_stream = <<>> /\ fetch_stream_sender_closed
    /\ stream_ended' = TRUE
    /\ fetch_stream' = <<>>
    /\ UNCHANGED <<storeVars, pc, sync_ret, sync_error, stop_on_sync, backup_every_n_blocks, exexVars, provider, config, telemetry, fetch_queue, cancellation_token,
                   blocked_at_cancel, block_conv, once_caught_up_cb, next_block,
                   in_progress_queue, conv_block, importing, imported, pending_polls, pending_cycle, first_error>>

\* a pre_validate in progress finishes; its output, a block or an error, stays
\* in the queue until buffered yields it
ConvFinish ==
    /\ Spawned("conversion")
    /\ \E i \in DOMAIN in_progress_queue :
        /\ in_progress_queue[i][2] = "run"
        /\ in_progress_queue' = [in_progress_queue EXCEPT ![i][2] = "done"]
    /\ UNCHANGED <<storeVars, pc, sync_ret, sync_error, stop_on_sync, backup_every_n_blocks, exexVars, provider, config, telemetry, fetch_queue, cancellation_token,
                   blocked_at_cancel, fetch_stream, block_conv, once_caught_up_cb,
                   next_block, stream_ended, conv_block, importing, imported,
                   pending_polls, pending_cycle, first_error>>

\* stream.next() yields a converted block, which the task goes on to send
ConvYield ==
    /\ pc["conversion"] = "next"
    /\ LET i == buffered_next(in_progress_queue)
       IN  /\ i # 0
           /\ conv_block' = Some(in_progress_queue[i][1])
           /\ in_progress_queue' = RemoveAt(in_progress_queue, i)
    /\ pc' = [pc EXCEPT !["conversion"] = "send"]
    /\ UNCHANGED <<storeVars, sync_ret, sync_error, stop_on_sync, backup_every_n_blocks, exexVars, provider, config, telemetry, fetch_queue, cancellation_token,
                   blocked_at_cancel, fetch_stream, block_conv, once_caught_up_cb,
                   next_block, stream_ended, importing, imported, pending_polls, pending_cycle,
                   first_error>>

\* mutant: the failed pre_validate is started again instead of being returned
ConvYieldRetry ==
    /\ pc["conversion"] = "next"
    /\ buffered_next(in_progress_queue) # 0
    /\ in_progress_queue' =
            [in_progress_queue EXCEPT ![buffered_next(in_progress_queue)][2] = "run"]
    /\ UNCHANGED <<storeVars, pc, sync_ret, sync_error, stop_on_sync, backup_every_n_blocks, exexVars, provider, config, telemetry, fetch_queue, cancellation_token,
                   blocked_at_cancel, fetch_stream, block_conv, once_caught_up_cb,
                   next_block, stream_ended, conv_block, importing, imported,
                   pending_polls, pending_cycle, first_error>>

\* mutant: the blocks whose conversion finished behind the failed one are sent
\* before the error is returned
ConvYieldErrFlush ==
    /\ pc["conversion"] = "next"
    /\ buffered_next(in_progress_queue) # 0
    /\ TaskExit("conversion", "err")
    /\ block_conv' = block_conv \o
            SelectSeq([i \in 1..(Len(in_progress_queue) - 1) |-> in_progress_queue[i + 1][1]],
                      LAMBDA b : \E i \in DOMAIN in_progress_queue :
                                    in_progress_queue[i] = <<b, "done">>)
    /\ in_progress_queue' = <<>>
    /\ fetch_stream' = <<>>
    /\ UNCHANGED <<storeVars, sync_ret, sync_error, stop_on_sync, backup_every_n_blocks, exexVars, provider, config, telemetry, fetch_queue, cancellation_token,
                   blocked_at_cancel, once_caught_up_cb, next_block,
                   stream_ended, conv_block, importing, imported, pending_polls, pending_cycle>>

\* stream.next() yields the error of a pre_validate: block? returns it from the task
ConvYieldErr ==
    /\ pc["conversion"] = "next"
    /\ buffered_next(in_progress_queue) # 0
    /\ TaskExit("conversion", "err")
    /\ in_progress_queue' = <<>>
    /\ fetch_stream' = <<>>
    /\ UNCHANGED <<storeVars, sync_ret, sync_error, stop_on_sync, backup_every_n_blocks, exexVars, provider, config, telemetry, fetch_queue, cancellation_token,
                   blocked_at_cancel, block_conv, once_caught_up_cb, next_block,
                   stream_ended, conv_block, importing, imported, pending_polls, pending_cycle>>

\* mutant: output.send(block) completes and the block is lost
ConvSendLost ==
    /\ pc["conversion"] = "send"
    /\ ~block_conv_receiver_closed
    /\ Len(block_conv) < BLOCK_CONV_CAPACITY
    /\ conv_block' = None
    /\ pc' = [pc EXCEPT !["conversion"] = "next"]
    /\ UNCHANGED <<storeVars, sync_ret, sync_error, stop_on_sync, backup_every_n_blocks, exexVars, provider, config, telemetry, fetch_queue, cancellation_token,
                   blocked_at_cancel, fetch_stream, block_conv, once_caught_up_cb, next_block,
                   stream_ended, in_progress_queue, importing, imported,
                   pending_polls, pending_cycle, first_error>>

\* output.send(block) completes: block_conv has room
ConvSend ==
    /\ pc["conversion"] = "send"
    /\ ~block_conv_receiver_closed
    /\ Len(block_conv) < BLOCK_CONV_CAPACITY
    /\ block_conv' = Append(block_conv, conv_block[1])
    /\ conv_block' = None
    /\ pc' = [pc EXCEPT !["conversion"] = "next"]
    /\ UNCHANGED <<storeVars, sync_ret, sync_error, stop_on_sync, backup_every_n_blocks, exexVars, provider, config, telemetry, fetch_queue, cancellation_token,
                   blocked_at_cancel, fetch_stream, once_caught_up_cb, next_block,
                   stream_ended, in_progress_queue, importing, imported,
                   pending_polls, pending_cycle, first_error>>

\* the task returns Ok: the loop sees the cancellation or the end of the stream
\* at stream.next(), or output.send fails because the receiver is gone
ConvStop ==
    /\ \/ /\ pc["conversion"] = "next"
          /\ \/ graceful_shutdown
             \/ stream_ended /\ in_progress_queue = <<>>
       \/ /\ pc["conversion"] = "send"
          /\ block_conv_receiver_closed
    /\ TaskExit("conversion", "ok")
    /\ in_progress_queue' = <<>>
    /\ fetch_stream' = <<>>
    /\ conv_block' = None
    /\ UNCHANGED <<storeVars, sync_ret, sync_error, stop_on_sync, backup_every_n_blocks, exexVars, provider, config, telemetry, fetch_queue, cancellation_token,
                   blocked_at_cancel, block_conv, once_caught_up_cb, next_block,
                   stream_ended, importing, imported, pending_polls, pending_cycle>>

l2_block_conversion_task ==
    /\ ~JoinSetDropped
    /\ \/ ConvPull \/ ConvStreamEnd \/ ConvFinish \/ ConvYield
       \/ ConvYieldErr \/ ConvSend \/ ConvStop

\* recv() taken without waiting for the backup of the previous block
ApplyRecvDuringBackup ==
    /\ pc["verify_apply"] \in {"recv", "backup"}
    /\ block_conv # <<>>
    /\ importing' = Some(Head(block_conv))
    /\ block_conv' = Tail(block_conv)
    /\ pc' = [pc EXCEPT !["verify_apply"] = "import"]
    /\ UNCHANGED <<storeVars, sync_ret, sync_error, stop_on_sync, backup_every_n_blocks, exexVars, provider, config, telemetry, fetch_queue,
                   cancellation_token, blocked_at_cancel, fetch_stream, once_caught_up_cb,
                   next_block, stream_ended, in_progress_queue, conv_block, imported,
                   pending_polls, pending_cycle, first_error>>

\* updates_receiver.recv() yields the next converted block
ApplyRecv ==
    /\ pc["verify_apply"] = "recv"
    /\ block_conv # <<>>
    /\ importing' = Some(Head(block_conv))
    /\ block_conv' = Tail(block_conv)
    /\ pc' = [pc EXCEPT !["verify_apply"] = "import"]
    /\ UNCHANGED <<storeVars, sync_ret, sync_error, stop_on_sync, backup_every_n_blocks, exexVars, provider, config, telemetry, fetch_queue, cancellation_token,
                   blocked_at_cancel, fetch_stream, once_caught_up_cb, next_block,
                   stream_ended, in_progress_queue, conv_block, imported,
                   pending_polls, pending_cycle, first_error>>

\* the remainder of the backup check has the divisor zero: the task panics
backup_check_panics == backup_every_n_blocks = Some(0)

\* mutant: no backup after the genesis block
backup_due_after_genesis(block_number) ==
    /\ backup_every_n_blocks # None
    /\ block_number # 0
    /\ block_number % backup_every_n_blocks[1] = 0

\* the backup_every_n_blocks check of the loop for an imported block
backup_due(block_number) ==
    /\ backup_every_n_blocks # None
    /\ block_number % backup_every_n_blocks[1] = 0

\* verify_apply, notify_exexs and telemetry.send succeed: the block is imported,
\* with the effects given on the store and on telemetry; the task goes on to the
\* backup when one is due, else it is back at recv()
ApplyImportOf(effects) ==
    /\ pc["verify_apply"] = "import"
    /\ ~backup_check_panics
    /\ effects
    /\ imported' = Append(imported, importing[1])
    /\ importing' = None
    /\ pc' = [pc EXCEPT !["verify_apply"] =
                IF backup_due(importing[1]) THEN "backup" ELSE "recv"]
    /\ UNCHANGED <<sync_ret, sync_error, stop_on_sync, backup_every_n_blocks, exexVars, provider, config, fetch_queue,
                   cancellation_token, blocked_at_cancel, fetch_stream, block_conv,
                   once_caught_up_cb, next_block, stream_ended, in_progress_queue,
                   conv_block, pending_polls, pending_cycle, first_error>>

\* the import of a block where the store of the block importer and the
\* telemetry are left out
ApplyImport == ApplyImportOf(UNCHANGED <<storeVars, telemetry>>)

\* telemetry.send of the message block.import with the hash and number of a block
telemetry_send_block_import(block_hash, block_number) ==
    telemetry' = Append(telemetry, <<block_hash, block_number>>)

\* the import of a block with its effects: the block is stored under its number,
\* with the hash of its predecessor as parent hash, and block.import is sent
ApplyImportStored ==
    ApplyImportOf(/\ apply_block(importing[1], EmptyDiff)
                  /\ telemetry_send_block_import(BlockHash(importing[1]), importing[1]))

\* verify_apply succeeds and stores the block, then notify_exexs fails, the
\* manager being gone: the error is returned from the task before telemetry.send
ApplyNotifyFail ==
    /\ pc["verify_apply"] = "import"
    /\ config.exex_manager # None
    /\ apply_block(importing[1], EmptyDiff)
    /\ imported' = Append(imported, importing[1])
    /\ TaskExit("verify_apply", "err")
    /\ block_conv' = <<>>
    /\ UNCHANGED <<sync_ret, sync_error, stop_on_sync, backup_every_n_blocks, exexVars, provider, config, telemetry, fetch_queue, cancellation_token,
                   blocked_at_cancel, fetch_stream, once_caught_up_cb, next_block,
                   stream_ended, in_progress_queue, conv_block, importing,
                   pending_polls, pending_cycle>>

\* verify_apply, notify_exexs and telemetry.send succeed and the backup check
\* divides by an interval of zero: the block is imported and the task panics
ApplyImportPanic ==
    /\ pc["verify_apply"] = "import"
    /\ backup_check_panics
    /\ imported' = Append(imported, importing[1])
    /\ importing' = None
    /\ TaskExit("verify_apply", "panicked")
    /\ block_conv' = <<>>
    /\ UNCHANGED <<storeVars, sync_ret, sync_error, stop_on_sync, backup_every_n_blocks, exexVars, provider, config, telemetry, fetch_queue,
                   cancellation_token, blocked_at_cancel, fetch_stream,
                   once_caught_up_cb, next_block, stream_ended, in_progress_queue,
                   conv_block, pending_polls, pending_cycle>>

\* backend.backup() succeeds: the task is back at recv()
ApplyBackup ==
    /\ pc["verify_apply"] = "backup"
    /\ pc' = [pc EXCEPT !["verify_apply"] = "recv"]
    /\ UNCHANGED <<storeVars, sync_ret, sync_error, stop_on_sync, backup_every_n_blocks, exexVars, provider, config, telemetry, fetch_queue,
                   cancellation_token, blocked_at_cancel, fetch_stream, block_conv,
                   once_caught_up_cb, next_block, stream_ended, in_progress_queue,
                   conv_block, importing, imported, pending_polls, pending_cycle, first_error>>

\* backend.backup() fails: the error is returned from the task
ApplyBackupFail ==
    /\ pc["verify_apply"] = "backup"
    /\ TaskExit("verify_apply", "err")
    /\ block_conv' = <<>>
    /\ UNCHANGED <<storeVars, sync_ret, sync_error, stop_on_sync, backup_every_n_blocks, exexVars, provider, config, telemetry, fetch_queue,
                   cancellation_token, blocked_at_cancel, fetch_stream,
                   once_caught_up_cb, next_block, stream_ended, in_progress_queue,
                   conv_block, importing, imported, pending_polls, pending_cycle>>

\* verify_apply fails: the error is returned from the task
ApplyImportFail ==
    /\ pc["verify_apply"] = "import"
    /\ TaskExit("verify_apply", "err")
    /\ block_conv' = <<>>
    /\ UNCHANGED <<storeVars, sync_ret, sync_error, stop_on_sync, backup_every_n_blocks, exexVars, provider, config, telemetry, fetch_queue, cancellation_token,
                   blocked_at_cancel, fetch_stream, once_caught_up_cb, next_block,
                   stream_ended, in_progress_queue, conv_block, importing, imported,
                   pending_polls, pending_cycle>>

\* mutant: the loop ends as soon as the sender of block_conv is gone
ApplyStopAtClose ==
    /\ pc["verify_apply"] = "recv"
    /\ \/ graceful_shutdown
       \/ block_conv_sender_closed
    /\ cancellation_token' = (cancellation_token \/ stop_on_sync)
    /\ TaskExit("verify_apply", "ok")
    /\ block_conv' = <<>>
    /\ UNCHANGED <<storeVars, sync_ret, sync_error, stop_on_sync, backup_every_n_blocks, exexVars, provider, config, telemetry, fetch_queue, blocked_at_cancel,
                   fetch_stream, once_caught_up_cb, next_block, stream_ended,
                   in_progress_queue, conv_block, importing, imported, pending_polls, pending_cycle>>

\* the loop ends: channel_wait_or_graceful_shutdown(recv) is None on cancellation,
\* or when block_conv is empty and its sender gone; with stop_on_sync the task
\* cancels the token before it returns Ok
ApplyStop ==
    /\ pc["verify_apply"] = "recv"
    /\ \/ graceful_shutdown
       \/ block_conv = <<>> /\ block_conv_sender_closed
    /\ cancellation_token' = (cancellation_token \/ stop_on_sync)
    /\ TaskExit("verify_apply", "ok")
    /\ block_conv' = <<>>
    /\ UNCHANGED <<storeVars, sync_ret, sync_error, stop_on_sync, backup_every_n_blocks, exexVars, provider, config, telemetry, fetch_queue, blocked_at_cancel,
                   fetch_stream, once_caught_up_cb, next_block, stream_ended,
                   in_progress_queue, conv_block, importing, imported, pending_polls, pending_cycle>>

l2_verify_and_apply_task ==
    /\ ~JoinSetDropped
    /\ (ApplyRecv \/ ApplyImport \/ ApplyImportFail \/ ApplyStop)

\* startup of l2_pending_block_task: clear_pending_block, then the wait for the signal
PendingStart ==
    /\ pc["pending"] = "start"
    /\ db' = contract_db_clear_pending(db)
    /\ overlay' = [col \in ConfirmedColumns |-> EmptyMap]
    /\ pc' = [pc EXCEPT !["pending"] = "wait"]
    /\ UNCHANGED <<latest_block_n, hist, applied, block_info, sync_ret, sync_error, stop_on_sync, backup_every_n_blocks, exexVars, provider, config, telemetry, fetch_queue,
                   cancellation_token, blocked_at_cancel, fetch_stream, block_conv,
                   once_caught_up_cb, next_block, stream_ended, in_progress_queue,
                   conv_block, importing, imported, pending_polls, pending_cycle, first_error>>

\* sync_finished_cb.await is Ok: the poll loop starts
PendingCaughtUp ==
    /\ pc["pending"] = "wait"
    /\ sync_finished_cb_await(once_caught_up_cb) = "Ok"
    /\ pc' = [pc EXCEPT !["pending"] = "poll"]
    /\ UNCHANGED <<storeVars, sync_ret, sync_error, stop_on_sync, backup_every_n_blocks, exexVars, provider, config, telemetry, fetch_queue, cancellation_token,
                   blocked_at_cancel, fetch_stream, block_conv, once_caught_up_cb,
                   next_block, stream_ended, in_progress_queue, conv_block, importing,
                   imported, pending_polls, pending_cycle, first_error>>

\* backend.get_block_hash(Latest): the hash of the last block imported, else of
\* the tip the store was opened with
get_block_hash_latest ==
    IF imported # <<>> THEN Some(BlockHash(imported[Len(imported)]))
    ELSE IF latest_block_n # None THEN Some(BlockHash(latest_block_n[1]))
    ELSE None

\* the hash the pending block has to name as its parent
current_block_hash == IF get_block_hash_latest = None THEN ZERO ELSE get_block_hash_latest[1]

\* what the gateway holds as its pending block: none, or <<parent hash, state diff>>
UpstreamPending == {None} \cup {Some(<<h, d>>) : h \in 0..NBlocks, d \in provider}

\* fetch_pending_block_and_updates(parent, ..): the block of the gateway when it
\* has one that names parent as its parent hash
fetch_pending_block_and_updates(parent, upstream) ==
    IF upstream # None /\ upstream[1][1] = parent THEN Some(upstream[1][2]) ELSE None

\* verify_apply_pending(diff) on the store: the overlay is cleared and populated
\* again with the state diff of the block
verify_apply_pending(diff) ==
    /\ db' = contract_db_store_pending(contract_db_clear_pending(db), diff)
    /\ overlay' = OverlayApply([col \in ConfirmedColumns |-> EmptyMap], diff)
    /\ UNCHANGED <<latest_block_n, hist, applied, block_info>>

\* one cycle of the poll loop: the tick, the fetch of the pending block, its import
PendingPoll ==
    /\ pc["pending"] = "poll"
    /\ pending_polls < MaxPolls
    /\ pending_polls' = pending_polls + 1
    /\ pending_cycle' = "imported"
    /\ UNCHANGED <<pc, sync_ret, sync_error, stop_on_sync, backup_every_n_blocks, exexVars, provider, config, telemetry, fetch_queue,
                   cancellation_token, blocked_at_cancel, fetch_stream, block_conv,
                   once_caught_up_cb, next_block, stream_ended, in_progress_queue,
                   conv_block, importing, imported, first_error>>
    /\ \E upstream \in UpstreamPending :
        LET block == fetch_pending_block_and_updates(current_block_hash, upstream) IN
        /\ block # None
        /\ verify_apply_pending(block[1])

\* mutant: the fetch yielding no block ends the loop
PendingPollSkipReturn ==
    /\ pc["pending"] = "poll"
    /\ pending_polls < MaxPolls
    /\ \E upstream \in UpstreamPending :
        fetch_pending_block_and_updates(current_block_hash, upstream) = None
    /\ pending_polls' = pending_polls + 1
    /\ pending_cycle' = "skipped"
    /\ TaskExit("pending", "ok")
    /\ UNCHANGED <<storeVars, sync_ret, sync_error, stop_on_sync, backup_every_n_blocks, exexVars,
                   provider, config, telemetry, fetch_queue, cancellation_token, blocked_at_cancel, fetch_stream,
                   block_conv, once_caught_up_cb, next_block, stream_ended,
                   in_progress_queue, conv_block, importing, imported>>

\* a cycle where the fetch yields no block: continue, the loop is at its next tick
PendingPollSkip ==
    /\ pc["pending"] = "poll"
    /\ pending_polls < MaxPolls
    /\ \E upstream \in UpstreamPending :
        fetch_pending_block_and_updates(current_block_hash, upstream) = None
    /\ pending_polls' = pending_polls + 1
    /\ pending_cycle' = "skipped"
    /\ UNCHANGED <<storeVars, pc, sync_ret, sync_error, stop_on_sync, backup_every_n_blocks, exexVars, provider, config, telemetry, fetch_queue,
                   cancellation_token, blocked_at_cancel, fetch_stream, block_conv,
                   once_caught_up_cb, next_block, stream_ended, in_progress_queue,
                   conv_block, importing, imported, first_error>>

\* a cycle where import_block fails: the error is logged, the loop is at its next tick
PendingPollImportErr ==
    /\ pc["pending"] = "poll"
    /\ pending_polls < MaxPolls
    /\ \E upstream \in UpstreamPending :
        fetch_pending_block_and_updates(current_block_hash, upstream) # None
    /\ pending_polls' = pending_polls + 1
    /\ pending_cycle' = "import_err"
    /\ UNCHANGED <<storeVars, pc, sync_ret, sync_error, stop_on_sync, backup_every_n_blocks, exexVars, provider, config, telemetry, fetch_queue,
                   cancellation_token, blocked_at_cancel, fetch_stream, block_conv,
                   once_caught_up_cb, next_block, stream_ended, in_progress_queue,
                   conv_block, importing, imported, first_error>>

\* a cycle fails on the latest block hash or on the fetch of the pending block:
\* the error is returned from the task
PendingPollFail ==
    /\ pc["pending"] = "poll"
    /\ pending_polls < MaxPolls
    /\ TaskExit("pending", "err")
    /\ pending_cycle' = "err"
    /\ UNCHANGED <<storeVars, sync_ret, sync_error, stop_on_sync, backup_every_n_blocks, exexVars, provider, config, telemetry, fetch_queue,
                   cancellation_token, blocked_at_cancel, fetch_stream, block_conv,
                   once_caught_up_cb, next_block, stream_ended, in_progress_queue,
                   conv_block, importing, imported, pending_polls>>

\* the task returns Ok: the oneshot sender was dropped, or the tick sees the
\* cancellation
PendingStop ==
    /\ \/ pc["pending"] = "wait" /\ sync_finished_cb_await(once_caught_up_cb) = "Err"
       \/ pc["pending"] = "poll" /\ graceful_shutdown
    /\ TaskExit("pending", "ok")
    /\ UNCHANGED <<storeVars, sync_ret, sync_error, stop_on_sync, backup_every_n_blocks, exexVars, provider, config, telemetry, fetch_queue, cancellation_token,
                   blocked_at_cancel, fetch_stream, block_conv, once_caught_up_cb,
                   next_block, stream_ended, in_progress_queue, conv_block, importing,
                   imported, pending_polls, pending_cycle>>

\* the backup step of l2_verify_and_apply_task, taken with an interval configured
l2_verify_and_apply_backup ==
    /\ ~JoinSetDropped
    /\ (ApplyBackup \/ ApplyBackupFail \/ ApplyImportPanic)

l2_pending_block_task ==
    /\ ~JoinSetDropped
    /\ \/ PendingStart
       \/ PendingCaughtUp
       \/ PendingPoll
       \/ PendingPollSkip
       \/ PendingPollImportErr
       \/ PendingPollFail
       \/ PendingStop

\* the join loop of sync: join_set.join_next() yields the results in the order the
\* tasks finished; res?? returns the first error from sync, and the loop ends with
\* Ok once the four tasks have returned Ok
SyncJoin ==
    /\ sync_ret = "joining"
    /\ \/ /\ first_error # "none"
          /\ sync_ret' = "Err"
          /\ sync_error' = first_error
       \/ /\ \A t \in Tasks : pc[t] = "ok"
          /\ sync_ret' = "Ok"
          /\ sync_error' = sync_error
    /\ UNCHANGED <<storeVars, pc, stop_on_sync, backup_every_n_blocks, exexVars, provider, config, telemetry, fetch_queue, cancellation_token, blocked_at_cancel,
                   fetch_stream, block_conv, once_caught_up_cb, next_block,
                   stream_ended, in_progress_queue, conv_block, importing, imported,
                   pending_polls, pending_cycle, first_error>>

\* the abort of a task still in the dropped JoinSet takes effect: the runtime drops
\* the task, and what the task holds with it
Abort ==
    /\ JoinSetDropped
    /\ \E t \in Tasks :
        /\ Spawned(t)
        /\ pc' = [pc EXCEPT ![t] = "aborted"]
        /\ once_caught_up_cb' =
                IF t = "fetch" THEN DropSender(once_caught_up_cb) ELSE once_caught_up_cb
        /\ in_progress_queue' = IF t = "conversion" THEN <<>> ELSE in_progress_queue
        /\ fetch_stream' = IF t = "conversion" THEN <<>> ELSE fetch_stream
        /\ conv_block' = IF t = "conversion" THEN None ELSE conv_block
        /\ block_conv' = IF t = "verify_apply" THEN <<>> ELSE block_conv
    /\ UNCHANGED <<storeVars, sync_ret, sync_error, stop_on_sync, backup_every_n_blocks, exexVars, provider, config, telemetry, fetch_queue, cancellation_token,
                   blocked_at_cancel, next_block, stream_ended, importing, imported,
                   pending_polls, pending_cycle, first_error>>

\* sync() without a backup interval
SyncStart == \E stop \in BOOLEAN : sync(stop, None, {EmptyDiff}, None, None, None)

\* sync() against a gateway whose pending block carries state updates
SyncStartPending ==
    \E stop \in BOOLEAN, starting_block \in StartingBlocks :
        sync(stop, None, PendingDiffs, starting_block, None, None)

\* sync() with any backup configuration: none, or an interval
SyncStartBackup ==
    \E stop \in BOOLEAN, backup \in {None} \cup {Some(n) : n \in BackupIntervals} :
        sync(stop, backup, {EmptyDiff}, None, None, None)

NextSync ==
    \/ SyncStart
    \/ Cancel
    \/ l2_fetch_task
    \/ l2_block_conversion_task
    \/ l2_verify_and_apply_task
    \/ l2_pending_block_task
    \/ SyncJoin
    \/ Abort

NextBackup ==
    \/ SyncStartBackup
    \/ Cancel
    \/ l2_fetch_task
    \/ l2_block_conversion_task
    \/ l2_verify_and_apply_task
    \/ l2_verify_and_apply_backup
    \/ l2_pending_block_task
    \/ SyncJoin
    \/ Abort

\* the store as an earlier session of the node left it: at most one block and
\* one pending block were stored before sync is called
PreviousSessionBlock ==
    /\ sync_ret = "idle"
    /\ applied = {}
    /\ \E n \in BlockNumbers, d \in StateDiffs : apply_block(n, d)
    /\ UNCHANGED <<syncVars, exexVars>>

PreviousSessionPending ==
    /\ sync_ret = "idle"
    /\ overlay = [col \in ConfirmedColumns |-> EmptyMap]
    /\ \E d \in PendingDiffs : apply_pending(d)
    /\ UNCHANGED <<syncVars, exexVars>>

\* the pending task next to the fetch task that signals it, on the store of an
\* earlier session
NextPending ==
    \/ PreviousSessionBlock
    \/ PreviousSessionPending
    \/ SyncStartPending
    \/ Cancel
    \/ l2_fetch_task
    \/ l2_pending_block_task
    \/ SyncJoin
    \/ Abort

-----------------------------------------------------------------------------
(* The Pragma dispatch ExEx *)

\* feed ids the registry events carry; 1 and 2 are also values the count in
\* element 0 of the feed list takes
FeedIds == {1, 2}

\* the notifications one run of the ExEx receives
MaxNotifications == 3

PRAGMA_FEEDS_REGISTRY_ADDRESS == "PRAGMA_FEEDS_REGISTRY_ADDRESS"
NEW_FEED_ID_SELECTOR == "NewFeedId"
REMOVED_FEED_ID_SELECTOR == "RemovedFeedId"

\* a Felt is written as the integer nearest to zero in its class: the values of
\* the model stay small, so Felt equality, + ONE and - ONE are those of integers
FeltZERO == 0
FeltONE == 1

\* vec![Felt::ZERO]
EMPTY_FEEDS == <<FeltZERO>>

\* what the call get_all_feeds of the registry returns: the number of feeds
\* followed by the feeds, or an error
RegistryFeeds ==
    {Err("call"), Ok(<<0>>), Ok(<<1, 1>>), Ok(<<1, 2>>), Ok(<<2, 1, 2>>), Ok(<<2, 2, 1>>)}

get_feed_ids_from_registry(registry) == registry

Event(from_address, keys, data) == [from_address |-> from_address, keys |-> keys, data |-> data]

\* events of the receipts of a produced block: the two registry events for each
\* feed id, an event of another contract, one without keys and one whose data
\* has not two elements
Events ==
    {Event(PRAGMA_FEEDS_REGISTRY_ADDRESS, <<s>>, <<0, f>>) :
        s \in {NEW_FEED_ID_SELECTOR, REMOVED_FEED_ID_SELECTOR}, f \in FeedIds}
    \cup {Event("other", <<NEW_FEED_ID_SELECTOR>>, <<0, 1>>),
          Event(PRAGMA_FEEDS_REGISTRY_ADDRESS, <<>>, <<0, 1>>),
          Event(PRAGMA_FEEDS_REGISTRY_ADDRESS, <<NEW_FEED_ID_SELECTOR>>, <<1>>)}

\* block.inner.receipts: invoke receipts with one event each, and a receipt of
\* another kind
Receipts ==
    {[kind |-> "Invoke", events |-> <<e>>] : e \in Events}
    \cup {[kind |-> "L1Handler",
           events |-> <<Event(PRAGMA_FEEDS_REGISTRY_ADDRESS, <<NEW_FEED_ID_SELECTOR>>, <<0, 1>>)>>]}

Blocks == {<<>>} \cup {<<r>> : r \in Receipts} \cup {<<r1, r2>> : r1 \in Receipts, r2 \in Receipts}

\* feed_ids.contains(&feed_id)
contains(v, x) == \E i \in DOMAIN v : v[i] = x

\* feed_ids.iter().position(|x| *x == feed_id), as a 1-based index
position(v, x) ==
    IF contains(v, x) THEN Some(CHOOSE i \in DOMAIN v : v[i] = x /\ \A j \in 1..(i - 1) : v[j] # x)
    ELSE None

\* feed_ids.remove(pos)
remove(v, pos) == SubSeq(v, 1, pos - 1) \o SubSeq(v, pos + 1, Len(v))

\* the body of the loop over the events for one event: the feed list after it,
\* or "panic" when feed_ids[0] is indexed in an empty vec
feed_event(feed_ids_, event) ==
    IF event.from_address # PRAGMA_FEEDS_REGISTRY_ADDRESS THEN feed_ids_
    ELSE IF event.keys = <<>> \/ Len(event.data) # 2 THEN feed_ids_
    ELSE LET selector == event.keys[1]
             feed_id == event.data[2]
         IN  IF selector = NEW_FEED_ID_SELECTOR
             THEN IF ~contains(feed_ids_, feed_id)
                  THEN [Append(feed_ids_, feed_id) EXCEPT ![1] = @ + FeltONE]
                  ELSE feed_ids_
             ELSE IF selector = REMOVED_FEED_ID_SELECTOR
             THEN IF position(feed_ids_, feed_id) # None
                  THEN LET removed == remove(feed_ids_, position(feed_ids_, feed_id)[1])
                       IN  IF removed = <<>> THEN "panic"
                           ELSE [removed EXCEPT ![1] = @ - FeltONE]
                  ELSE feed_ids_
             ELSE feed_ids_

\* the events of the invoke receipts of a block, in order
RECURSIVE InvokeEvents(_)
InvokeEvents(receipts) ==
    IF receipts = <<>> THEN <<>>
    ELSE (IF receipts[1].kind = "Invoke" THEN receipts[1].events ELSE <<>>)
         \o InvokeEvents(Tail(receipts))

RECURSIVE feed_events(_, _)
feed_events(feed_ids_, events_) ==
    IF events_ = <<>> \/ feed_ids_ = "panic" THEN feed_ids_
    ELSE feed_events(feed_event(feed_ids_, events_[1]), Tail(events_))

\* update_feed_ids_if_necessary: the result, Ok, Err or a panic, and the feed list
\* it leaves
update_feed_ids_if_necessary(registry, block, feed_ids_) ==
    IF feed_ids_ = EMPTY_FEEDS
    THEN IF get_feed_ids_from_registry(registry)[1] = "Ok"
         THEN [result |-> "Ok", feed_ids |-> get_feed_ids_from_registry(registry)[2]]
         ELSE [result |-> "Err", feed_ids |-> feed_ids_]
    ELSE LET updated == feed_events(feed_ids_, InvokeEvents(block))
         IN  IF updated = "panic" THEN [result |-> "panic", feed_ids |-> feed_ids_]
             ELSE [result |-> "Ok", feed_ids |-> updated]

\* `current_head - 1 > block_number` on u64: with current_head = 0 the
\* subtraction panics when overflow checks are compiled in and wraps to
\* u64::MAX, above every block number of the model, when they are not
head_too_far_ahead(current_head, block_number, overflow_checks) ==
    IF current_head = 0
    THEN IF overflow_checks THEN "panic" ELSE "yes"
    ELSE IF current_head - 1 > block_number THEN "yes" ELSE "no"

\* what the node answers to current_block_number
CurrentHeads == {Err("head")} \cup {Ok(n) : n \in {0, 1, MaxBlockN + 2}}

ExExInit ==
    /\ exex_pc = "init"
    /\ feed_ids = EMPTY_FEEDS
    /\ notifications = <<>>
    /\ events = <<>>

\* exex_pragma_dispatch up to the loop: the feed list of the registry, or the
\* empty feed list when the call fails
ExExStart ==
    /\ exex_pc = "init"
    /\ \E registry \in RegistryFeeds :
        feed_ids' = IF get_feed_ids_from_registry(registry)[1] = "Ok"
                    THEN get_feed_ids_from_registry(registry)[2]
                    ELSE <<FeltZERO>>
    /\ exex_pc' = "next"
    /\ UNCHANGED <<storeVars, syncVars, notifications, events>>

\* ctx.events.send(ExExEvent::FinishedHeight(block_number))?: the event is
\* sent and the loop goes on, or the receiver is gone and the ExEx returns the error
events_send_finished_height(block_number, receiver_alive) ==
    IF receiver_alive
    THEN /\ events' = Append(events, block_number)
         /\ exex_pc' = "next"
    ELSE /\ events' = events
         /\ exex_pc' = "err"

\* the ExEx panics: it is gone without an event for the notification
exex_panic ==
    /\ events' = events
    /\ exex_pc' = "panicked"

\* the notification BlockSynced is received: the event is sent at once
ExExBlockSynced ==
    /\ exex_pc = "next"
    /\ Len(notifications) < MaxNotifications
    /\ \E block_number \in BlockNumbers, receiver_alive \in BOOLEAN :
        /\ notifications' = Append(notifications, block_number)
        /\ events_send_finished_height(block_number, receiver_alive)
    /\ UNCHANGED <<storeVars, syncVars, feed_ids>>

\* the notification BlockProduced is received and handled on the branch the feed
\* update, the feed list, the node head and the dispatch select; the registry is
\* asked only with the empty feed list, the block is read only without it, and
\* the build matters only for the head 0
ExExBlockProduced ==
    /\ exex_pc = "next"
    /\ Len(notifications) < MaxNotifications
    /\ \E block_number \in BlockNumbers, receiver_alive \in BOOLEAN,
          current_head \in CurrentHeads :
       \E registry \in IF feed_ids = EMPTY_FEEDS THEN RegistryFeeds ELSE {Err("call")},
          block \in IF feed_ids = EMPTY_FEEDS THEN {<<>>} ELSE Blocks,
          overflow_checks \in IF current_head = Ok(0) THEN BOOLEAN ELSE {FALSE} :
        LET updated == update_feed_ids_if_necessary(registry, block, feed_ids)
        IN  /\ notifications' = Append(notifications, block_number)
            /\ IF updated.result = "panic"
               THEN /\ feed_ids' = feed_ids
                    /\ exex_panic
               ELSE IF updated.result = "Err"
               THEN /\ feed_ids' = updated.feed_ids
                    /\ events_send_finished_height(block_number, receiver_alive)
               ELSE IF updated.feed_ids = EMPTY_FEEDS
               THEN /\ feed_ids' = updated.feed_ids
                    /\ events_send_finished_height(block_number, receiver_alive)
               ELSE IF current_head[1] = "Err"
               THEN /\ feed_ids' = updated.feed_ids
                    /\ events_send_finished_height(block_number, receiver_alive)
               ELSE IF head_too_far_ahead(current_head[2], block_number, overflow_checks) = "panic"
               THEN /\ feed_ids' = updated.feed_ids
                    /\ exex_panic
               ELSE \* too far ahead, or process_dispatch_transaction returned, Ok or
                    \* Err: its error is logged only
                    /\ feed_ids' = updated.feed_ids
                    /\ events_send_finished_height(block_number, receiver_alive)
    /\ UNCHANGED <<storeVars, syncVars>>

\* ctx.notifications.next() is None: the ExEx returns Ok
ExExEnd ==
    /\ exex_pc = "next"
    /\ exex_pc' = "ok"
    /\ UNCHANGED <<storeVars, syncVars, feed_ids, notifications, events>>

-----------------------------------------------------------------------------
(* Specifications *)

StoreBlock ==
    /\ \E n \in BlockNumbers, d \in StateDiffs : apply_block(n, d)
    /\ UNCHANGED <<syncVars, exexVars>>

StoreBlockErr ==
    \E n \in BlockNumbers, d \in StateDiffs, failing \in DOMAIN StoreOrder :
        LET chunks == ChunksOf(d, StoreOrder[failing])
        IN  /\ chunks # <<>>
            /\ \E written \in (SUBSET DOMAIN chunks) \ {DOMAIN chunks} :
                    apply_block_err(n, d, failing, written)
            /\ UNCHANGED <<syncVars, exexVars>>

StoreBlockU64 ==
    /\ \E block_n \in U64BlockNumbers, d \in StateDiffs : apply_block_u64(block_n, d)
    /\ UNCHANGED <<syncVars, exexVars>>

StorePending ==
    /\ \E d \in PendingDiffs : apply_pending(d)
    /\ UNCHANGED <<syncVars, exexVars>>

ClearPending == clear_pending /\ UNCHANGED <<syncVars, exexVars>>

Init == StoreInit /\ SyncInit /\ ExExInit

Next == StoreBlock \/ StorePending \/ ClearPending

\* the store under any sequence of apply_block, apply_pending and clear_pending
Spec == Init /\ [][Next]_vars

NextHistory == StoreBlock

NextExEx == ExExStart \/ ExExBlockSynced \/ ExExBlockProduced \/ ExExEnd

\* the Pragma dispatch ExEx on any notifications
SpecExEx == Init /\ [][NextExEx]_vars

\* the store under any sequence of apply_block calls
SpecHistory == Init /\ [][NextHistory]_vars

NextFault == StoreBlock \/ StoreBlockErr

\* the store under apply_block calls some of which fail on a database write
SpecFault == Init /\ [][NextFault]_vars

NextU64 == StoreBlockU64

\* the store under apply_block calls with u64 block numbers
SpecU64 == Init /\ [][NextU64]_vars

\* the pipeline under every interleaving of its tasks, with failures and cancellation
SpecSync == Init /\ [][NextSync]_vars

\* the pipeline with a backup interval configured
SpecBackup == Init /\ [][NextBackup]_vars

\* the pending task on the store of an earlier session
SpecPending == Init /\ [][NextPending]_vars

\* the pipeline on a runtime that keeps polling every task that can make a step
FairSync ==
    /\ SpecSync
    /\ WF_vars(l2_fetch_task)
    /\ WF_vars(l2_block_conversion_task)
    /\ WF_vars(l2_verify_and_apply_task)
    /\ WF_vars(l2_pending_block_task)
    /\ WF_vars(SyncJoin)
    /\ WF_vars(Abort)

-----------------------------------------------------------------------------
(* Queries used by the claims *)

SetMax(S) == CHOOSE x \in S : \A y \in S : y <= x

\* block numbers asked for: every stored one, the next one, and numbers whose
\* encodings differ in the higher bytes
QueryBlocks == (0..(MaxBlockN + 1)) \cup {256, 65536}

\* the value of E as of block N according to the apply_block calls made: the one
\* of the greatest recorded block number <= N
HistLookup(col, E, N) ==
    LET recorded == {n \in BlockNumbers : n <= N /\ <<E, n>> \in DOMAIN hist[col]}
    IN  IF recorded = {} THEN None ELSE Some(hist[col][<<E, SetMax(recorded)>>])

\* C1: after any sequence of apply_block calls, a historical get(E, N) returns the
\* value written by the apply_block call with the greatest block number <= N that
\* contained E, and None when there is none
C1_HistoricalGet ==
    \A col \in ConfirmedColumns : \A E \in Entities(col) : \A N \in QueryBlocks :
        GetAt(col, DbBlockIdBlockN(N), E) = HistLookup(col, E, N)

\* C1 witness: E recorded at blocks 0 and 2 with different values and not at 1;
\* the lookup at 1 gives the value of 0, the lookup at 2 and above the value of 2,
\* and an entity first written at block 2 gives None at block 1
C1_Witness ==
    /\ {n \in BlockNumbers : <<1, n>> \in DOMAIN hist["ContractToClassHashes"]} = {0, 2}
    /\ {n \in BlockNumbers : <<256, n>> \in DOMAIN hist["ContractToClassHashes"]} = {2}
    /\ get_contract_class_hash_at(DbBlockIdBlockN(0), 1) = Some(1)
    /\ get_contract_class_hash_at(DbBlockIdBlockN(1), 1) = Some(1)
    /\ get_contract_class_hash_at(DbBlockIdBlockN(2), 1) = Some(2)
    /\ get_contract_class_hash_at(DbBlockIdBlockN(65536), 1) = Some(2)
    /\ get_contract_class_hash_at(DbBlockIdBlockN(1), 256) = None
    /\ get_contract_class_hash_at(DbBlockIdBlockN(2), 256) = Some(2)


-----------------------------------------------------------------------------
(* Pending overlay *)

LatestLookup(col, E) ==
    IF latest_block_n = None THEN None ELSE HistLookup(col, E, latest_block_n[1])

\* C2: after apply_pending({E: v}) and before any clear_pending, a get of E that
\* targets the pending block returns v, for class hashes, nonces and storage
C2_PendingPrecedence ==
    \A col \in ConfirmedColumns : \A E \in Entities(col) :
        E \in DOMAIN overlay[col] =>
            GetAt(col, DbBlockIdPending, E) = Some(overlay[col][E])

\* C3: apply_pending leaves the three confirmed columns unchanged
C3_PendingLeavesConfirmed ==
    [][(\E d \in PendingDiffs : apply_pending(d)) =>
            \A col \in ConfirmedColumns : db'[col] = db[col]]_vars

\* C4: after clear_pending (no apply_pending since), a pending-targeted get of E
\* returns the latest confirmed value, the one apply_block calls alone determine
C4_ClearPendingFallsBack ==
    (\A col \in ConfirmedColumns : overlay[col] = EmptyMap) =>
        \A col \in ConfirmedColumns : \A E \in Entities(col) :
            GetAt(col, DbBlockIdPending, E) = LatestLookup(col, E)

-----------------------------------------------------------------------------
(* Idempotence *)

\* the result of every historical get on the store d
AllHistoricalGets(d) ==
    [col \in ConfirmedColumns |->
        [E \in Entities(col) |->
            [N \in QueryBlocks |->
                resolve_history_kv(d, None, DbBlockIdBlockN(N), col, col, E)]]]

ConfirmedStore(d) == [col \in ConfirmedColumns |-> d[col]]

Unchanged(d1, d2) ==
    /\ ConfirmedStore(d1) = ConfirmedStore(d2)
    /\ AllHistoricalGets(d1) = AllHistoricalGets(d2)

\* every entry of the diff is the value most recently written for (E, N)
StillCurrent(block_n, diff) ==
    \A col \in ConfirmedColumns : \A i \in DOMAIN UpdatesOf(diff, col) :
        LET u == UpdatesOf(diff, col)[i]
        IN  /\ <<u[1], block_n>> \in DOMAIN hist[col]
            /\ hist[col][<<u[1], block_n>>] = u[2]

\* C6 as stated: applying again an update (N, diff) that was applied before, at
\* any later point, leaves the stored values and every historical get unchanged
C6_ReapplyAnyTime ==
    \A call \in applied :
        Unchanged(db, contract_db_store_block(db, call[1], call[2]))

\* C6 amended: applying (N, diff) again leaves the stored values and every historical
\* get unchanged provided no apply_block wrote a different value for one of its
\* (E, N) in between
C6_ReapplyWhileCurrent ==
    \A call \in applied :
        StillCurrent(call[1], call[2]) =>
            Unchanged(db, contract_db_store_block(db, call[1], call[2]))

\* C6 witness: an update applied earlier is still current after a later block was
\* written, and another update of the same block has been overwritten since
C6_Witness ==
    \E call \in applied, other \in applied :
        /\ StillCurrent(call[1], call[2])
        /\ latest_block_n # Some(call[1])
        /\ ~StillCurrent(other[1], other[2])

-----------------------------------------------------------------------------
(* Prefix isolation *)

StartAt(col, E, N) == make_bin_prefix(col, E) \o block_n_to_be_bytes(N)

HasPrefix(key, prefix) ==
    Len(key) >= Len(prefix) /\ SubSeq(key, 1, Len(prefix)) = prefix

-----------------------------------------------------------------------------
(* Torn writes *)

\* every update of the diff is what a get at block_n returns on the store d
AllVisible(d, block_n, diff) ==
    \A col \in ConfirmedColumns : \A i \in DOMAIN UpdatesOf(diff, col) :
        LET u == UpdatesOf(diff, col)[i]
        IN  resolve_history_kv(d, None, DbBlockIdBlockN(block_n), col, col, u[1]) = Some(u[2])

\* C8: an apply_block call, also one that returns an error part-way, leaves either
\* none of the updates of block N in the store or all of them
C8_NoTornWrite ==
    [][\A n \in BlockNumbers, d \in StateDiffs :
            (\/ apply_block(n, d)
             \/ \E failing \in DOMAIN StoreOrder :
                    \E written \in SUBSET DOMAIN ChunksOf(d, StoreOrder[failing]) :
                        apply_block_err(n, d, failing, written))
            => (ConfirmedStore(db') = ConfirmedStore(db) \/ AllVisible(db', n, d))]_vars

-----------------------------------------------------------------------------
(* Pipeline ordering *)

\* the blocks the fetch task sent into fetch_stream, in order
Sent == [i \in 1..(next_block - config.first_block) |-> config.first_block + i - 1]

\* the blocks the verify-and-apply task received from block_conv, in order
Received == imported \o importing

\* C5: the verify-and-apply task receives the blocks in exactly the order in which
\* the fetch task sent them (so in ascending block number), whatever the order in
\* which the conversions in progress finish
C5_PipelineOrdering ==
    /\ Len(Received) <= Len(Sent)
    /\ Received = SubSeq(Sent, 1, Len(Received))
    /\ \A i \in 1..(Len(Received) - 1) : Received[i] < Received[i + 1]

\* C5 witness: blocks have been imported, and a younger conversion has finished
\* while an older one is still running
C5_Witness ==
    /\ Len(imported) >= 2
    /\ \E i, j \in DOMAIN in_progress_queue :
        /\ i < j
        /\ in_progress_queue[i][2] = "run"
        /\ in_progress_queue[j][2] = "done"

-----------------------------------------------------------------------------
(* Cancellation and the return of sync *)

AllExited == \A t \in Tasks : Exited(t)

SyncReturned == sync_ret \in {"Ok", "Err"}

\* C9: once the cancellation token is cancelled, each of the four tasks eventually
\* exits (also a pending task waiting for the caught-up signal and a conversion
\* task sending on a full block_conv) and sync returns
C9_CancellationLiveness == cancellation_token ~> (AllExited /\ SyncReturned)

\* C9 witness: the token was cancelled while the conversion task was sending on a
\* full block_conv and the pending task waiting for the signal; the four tasks have
\* returned and sync has returned Ok
C9_Witness ==
    /\ blocked_at_cancel
    /\ \A t \in Tasks : pc[t] = "ok"
    /\ sync_ret = "Ok"

\* C10 as stated: when sync has returned, each of the four tasks has exited, and
\* after a failure the value returned is the first error
C10_ReturnsAfterAllExited ==
    SyncReturned =>
        /\ AllExited
        /\ (sync_ret = "Err") = (first_error # "none")
        /\ sync_ret = "Err" => sync_error = first_error

-----------------------------------------------------------------------------
(* Failure of a stage *)

\* C11 as stated: when a stage has failed and sync has returned its error, the
\* sibling stages have been cancelled cooperatively, through the cancellation
\* token, and no task is terminated by force: none is aborted, in particular not
\* the verify-and-apply task in the middle of an import
C11_CooperativeCancel ==
    /\ sync_ret = "Err" => cancellation_token
    /\ \A t \in Tasks : pc[t] # "aborted"

\* the blocks whose pre_validate is in the queue of buffered, oldest first
InConversion == [i \in DOMAIN in_progress_queue |-> in_progress_queue[i][1]]

\* C12: a failure of pre_validate is fatal and not retried: no block is in
\* conversion twice and a conversion that has finished is never run again; once
\* the conversion task has returned the error, nothing is left in conversion, sync
\* cannot return Ok, and sync does return an error
C12_ConversionFailureFatal ==
    /\ [](/\ \A i \in 1..(Len(InConversion) - 1) : InConversion[i] < InConversion[i + 1]
          /\ conv_block # None /\ InConversion # <<>> => conv_block[1] < InConversion[1])
    /\ [][\A i \in DOMAIN in_progress_queue :
            in_progress_queue[i][2] = "done" =>
                \A j \in DOMAIN in_progress_queue' :
                    in_progress_queue'[j][1] = in_progress_queue[i][1] =>
                        in_progress_queue'[j][2] = "done"]_vars
    /\ [](pc["conversion"] = "err" =>
            /\ in_progress_queue = <<>>
            /\ first_error # "none"
            /\ sync_ret # "Ok")
    /\ (pc["conversion"] = "err" ~> sync_ret = "Err")

\* C12 witness: the conversion of a later block failed after earlier blocks were
\* imported, and sync returned the error of the conversion task
C12_Witness ==
    /\ pc["conversion"] = "err"
    /\ Len(imported) >= 1
    /\ sync_ret = "Err"
    /\ sync_error = "conversion"


(* The commit stage *)

\* C13: the commit stage is strictly sequential: at most one block is in
\* verify-and-apply at any time, none is while the task waits at recv() or runs
\* the backup, and a block is taken from block_conv only by a task that is at
\* recv() with the previous block's verify-and-apply, notification, telemetry
\* and backup finished; the block taken is the head of the channel.
C13_CommitSequential ==
    /\ [](/\ Len(importing) <= 1
          /\ pc["verify_apply"] \in {"recv", "backup", "ok"} => importing = None
          /\ pc["verify_apply"] = "import" => importing # None)
    /\ [][importing' # importing /\ importing' # None =>
            /\ pc["verify_apply"] = "recv"
            /\ importing = None
            /\ block_conv # <<>>
            /\ importing' = Some(Head(block_conv))
            /\ \A b \in 0..(importing'[1] - 1) :
                    \E i \in DOMAIN imported : imported[i] = b]_vars

C13_Witness ==
    /\ backup_every_n_blocks = Some(1)
    /\ pc["verify_apply"] = "backup"
    /\ Len(imported) >= 2
    /\ block_conv # <<>>


\* C14 as stated: a failure of the periodic backup is not fatal: whatever the
\* outcome of backend.backup(), the commit task leaves the backup step for the
\* next recv() (or is stopped from outside), the block that triggered the
\* backup stays imported, and the task records no error.
C14_BackupFailureNonFatal ==
    [][pc["verify_apply"] = "backup" =>
        /\ pc'["verify_apply"] \in {"backup", "recv", "aborted"}
        /\ imported' = imported
        /\ first_error' # "verify_apply"]_vars


(* The pending poll loop *)

\* C15 as stated: an error in a cycle of the pending poll loop, from reading the
\* latest block hash, from the fetch of the pending block or from its import, is
\* swallowed: however the cycles so far ended, the pending task has not returned
\* an error and sync has not returned one because of it.
C15_PollErrorsSwallowed ==
    pending_cycle # "none" =>
        /\ pc["pending"] # "err"
        /\ first_error # "pending"
        /\ sync_error # "pending"


\* C16: the pending task fetches and applies no pending block before it has
\* received the caught-up signal: it is in its poll loop, or has run a cycle,
\* only with the signal sent, and it enters the loop only from the wait on a sent
\* signal; when the sender is dropped without a send the task leaves the wait
\* with Ok and has never polled.
C16_NoPollBeforeSignal ==
    /\ [](/\ pc["pending"] = "poll" \/ pending_cycle # "none" \/ pending_polls > 0
                => once_caught_up_cb = "sent"
          /\ once_caught_up_cb = "dropped" =>
                /\ pc["pending"] \in {"start", "wait", "ok", "aborted"}
                /\ first_error # "pending")
    /\ [][/\ pc'["pending"] = "poll" /\ pc["pending"] # "poll" =>
                pc["pending"] = "wait" /\ once_caught_up_cb = "sent"
          /\ pc["pending"] = "wait" /\ pc'["pending"] # "wait" /\ once_caught_up_cb = "dropped" =>
                pc'["pending"] \in {"ok", "aborted"}]_vars

C16_Witness ==
    /\ once_caught_up_cb = "dropped"
    /\ pc["pending"] = "ok"
    /\ pending_polls = 0
    /\ pending_cycle = "none"
    /\ db = [col \in Columns |-> EmptyMap]


\* C17 as stated: the caught-up signal is raised by the commit stage, by the
\* commit that reaches the known head: the signal goes from unsent to sent only
\* in a step that imports the head block, and while a block at or below the head
\* is not imported the signal is unsent and the pending task not in its loop.
C17_SignalRaisedByCommit ==
    /\ [](once_caught_up_cb = "sent" \/ pc["pending"] = "poll" =>
            \A b \in 0..(NBlocks - 1) : \E i \in DOMAIN imported : imported[i] = b)
    /\ [][once_caught_up_cb # "sent" /\ once_caught_up_cb' = "sent" =>
            /\ imported' # imported
            /\ imported'[Len(imported')] = NBlocks - 1]_vars


\* C18 as stated: clear_pending runs at the startup of the pending task, before
\* the wait for the signal and before the first cycle, so that once the task is
\* past its startup, and as long as it has imported no pending block itself, a
\* pending-targeted get returns the latest confirmed value and never a pending
\* value an earlier session left in the store.
C18_StartupClearsStale ==
    pc["pending"] \in {"wait", "poll", "ok", "err"} /\ pending_cycle # "imported" =>
        \A col \in ConfirmedColumns : \A E \in Entities(col) :
            GetAt(col, DbBlockIdPending, E) = LatestLookup(col, E)


\* C19 as stated: after a cycle that imported a pending block the overlay is
\* exactly the state diff of that block: a pending-targeted get of an entity of
\* the diff returns the diff's value, and of any other entity, an entry of an
\* earlier pending block included, the latest confirmed value.
C19_OverlayIsFetchedDiff ==
    pending_cycle = "imported" =>
        \A col \in ConfirmedColumns : \A E \in Entities(col) :
            GetAt(col, DbBlockIdPending, E) =
                IF E \in DOMAIN overlay[col] THEN Some(overlay[col][E])
                ELSE LatestLookup(col, E)


\* C20: a cycle whose fetch yields no usable block is skipped. The fetch yields
\* no block when the gateway has none or its block names another parent than
\* the hash of the latest block, the zero hash when the store holds no block;
\* the skipped cycle leaves the store as it was, records no error, and the task
\* is still in its loop, at the next tick.
C20_SkipCycle ==
    /\ [](/\ \A upstream \in UpstreamPending :
                upstream = None \/ upstream[1][1] # current_block_hash =>
                    fetch_pending_block_and_updates(current_block_hash, upstream) = None
          /\ latest_block_n = None /\ imported = <<>> => current_block_hash = ZERO
          /\ latest_block_n # None /\ imported = <<>> =>
                current_block_hash = BlockHash(latest_block_n[1]))
    /\ [][pending_cycle' = "skipped" /\ pending_polls' # pending_polls =>
            /\ pc["pending"] = "poll"
            /\ pc' = pc
            /\ db' = db
            /\ latest_block_n' = latest_block_n
            /\ overlay' = overlay
            /\ first_error' = first_error
            /\ sync_ret' = sync_ret]_vars

C20_Witness ==
    /\ pending_cycle = "skipped"
    /\ pending_polls = 1
    /\ pc["pending"] = "poll"
    /\ latest_block_n = Some(1)
    /\ current_block_hash = BlockHash(1)
    /\ db["ContractToNonces"] # EmptyMap
    /\ first_error = "none"


-----------------------------------------------------------------------------
(* Block numbers beyond the key encoding *)

\* C21: apply_block and a historical get called with a block number above
\* 2^32 - 1 return InvalidBlockNumber, apply_block then leaving every column as
\* it was, and never act on the truncated number; with a block number that fits
\* they do what they do for the u32.
C21_InvalidBlockNumber ==
    \A block_n \in U64BlockNumbers :
        /\ \A d \in StateDiffs :
            LET r == contract_db_store_block_u64(db, block_n, d)
            IN  IF block_n[1] # 0
                THEN r.result = Err(InvalidBlockNumber) /\ r.db = db
                ELSE r.result = Ok(<<>>) /\ r.db = contract_db_store_block(db, block_n[2], d)
        /\ \A col \in ConfirmedColumns : \A E \in Entities(col) :
            GetAtBlockN(col, block_n, E) =
                IF block_n[1] # 0 THEN Err(InvalidBlockNumber)
                ELSE Ok(HistLookup(col, E, block_n[2]))

\* C21 witness: contract 1 has a class hash at block 1, and the get at 2^32 + 1,
\* whose low half is 1, is an error
C21_Witness ==
    /\ latest_block_n = Some(1)
    /\ get_contract_class_hash_at(DbBlockIdBlockN(1), 1) = Some(2)
    /\ GetAtBlockN("ContractToClassHashes", U64(1, 1), 1) = Err(InvalidBlockNumber)
    /\ db["ContractToClassHashes"] # EmptyMap


-----------------------------------------------------------------------------
(* Fallback of the pending get *)

PendingColumnOf(col) ==
    CASE col = "ContractToClassHashes" -> "PendingContractToClassHashes"
      [] col = "ContractToNonces" -> "PendingContractToNonces"
      [] col = "ContractStorage" -> "PendingContractStorage"

\* C22: a pending-targeted get of E that finds no entry for E in the pending
\* column returns what the historical get of E at the latest block number
\* returns, and None when the store holds no block.
C22_PendingMissFallsBack ==
    \A col \in ConfirmedColumns : \A E \in Entities(col) :
        GetCf(db[PendingColumnOf(col)], bincode_serialize_key(col, E)) = None =>
            GetAt(col, DbBlockIdPending, E) =
                IF get_latest_block_n = None THEN None
                ELSE GetAt(col, DbBlockIdBlockN(get_latest_block_n[1]), E)

\* C22 witness: block 2 is the latest and gave contract 256 its class hash, block 0
\* gave contract 1 a nonce; the pending gets return both
C22_Witness ==
    /\ latest_block_n = Some(2)
    /\ overlay = [col \in ConfirmedColumns |-> EmptyMap]
    /\ get_contract_class_hash_at(DbBlockIdPending, 256) = Some(2)
    /\ <<1, 0>> \in DOMAIN hist["ContractToNonces"]
    /\ get_contract_nonce_at(DbBlockIdPending, 1) = Some(1)
    /\ get_contract_nonce_at(DbBlockIdPending, 256) = None


\* C23: sync starts fetching at the block after the latest committed one, or at
\* block 0 on an empty store, with ignore_block_order false; a forced starting
\* block S makes it start at S with ignore_block_order true; the first block
\* fetched after a restart that follows commits up to n is therefore n + 1
C23_ResumePoint ==
    /\ [](sync_ret # "idle" =>
            /\ config.first_block =
                  IF config.starting_block # None THEN config.starting_block[1]
                  ELSE IF latest_block_n = None THEN 0 ELSE latest_block_n[1] + 1
            /\ config.ignore_block_order = (config.starting_block # None)
            /\ fetch_stream # <<>> => Head(fetch_stream) = config.first_block)
    /\ [][sync_ret = "idle" /\ sync_ret' # "idle" =>
            next_block' = config'.first_block /\ fetch_stream' = <<>>]_vars

C23_Witness ==
    /\ latest_block_n = Some(2)
    /\ config.starting_block = None
    /\ ~config.ignore_block_order
    /\ fetch_stream = <<3, 4>>


-----------------------------------------------------------------------------
(* Blocks stored in order, and the latest block as the RPC reports it *)

\* the hashes blocks are stored with
BlockHashes == {1, 2, 74565}

BlockNotFound == "BlockNotFound"
InternalServerError == "InternalServerError"

\* backend.get_block_info(Latest): the info of the block at the sync tip, which
\* is never the pending block
get_block_info_latest ==
    IF latest_block_n = None \/ latest_block_n[1] \notin DOMAIN block_info THEN None
    ELSE Some([tag |-> "NotPending", info |-> block_info[latest_block_n[1]]])

\* Starknet::get_block_info(Latest): no block is the error BlockNotFound
Starknet_get_block_info_latest ==
    IF get_block_info_latest = None THEN Err(BlockNotFound) ELSE Ok(get_block_info_latest[1])

as_nonpending(maybe_pending) ==
    IF maybe_pending.tag = "NotPending" THEN Some(maybe_pending.info) ELSE None

\* mutant: the hash reported is the one of the parent
block_hash_and_number_of_parent ==
    LET block_info_r == Starknet_get_block_info_latest
    IN  IF block_info_r[1] = "Err" THEN block_info_r
        ELSE IF as_nonpending(block_info_r[2]) = None THEN Err(InternalServerError)
        ELSE Ok([block_hash |-> as_nonpending(block_info_r[2])[1].parent_block_hash,
                 block_number |-> as_nonpending(block_info_r[2])[1].block_number])

\* block_hash_and_number(starknet)
block_hash_and_number ==
    LET block_info_r == Starknet_get_block_info_latest
    IN  IF block_info_r[1] = "Err" THEN block_info_r
        ELSE IF as_nonpending(block_info_r[2]) = None THEN Err(InternalServerError)
        ELSE Ok([block_hash |-> as_nonpending(block_info_r[2])[1].block_hash,
                 block_number |-> as_nonpending(block_info_r[2])[1].block_number])

\* the next block of the chain is stored: the genesis block with parent hash
\* zero, a later block with the hash of its predecessor as parent hash
StoreNextBlock ==
    LET n == IF latest_block_n = None THEN 0 ELSE latest_block_n[1] + 1
    IN  /\ n <= MaxBlockN
        /\ \E hash \in BlockHashes, d \in StateDiffs \cup {EmptyDiff} :
              store_block(DeoxysBlockInfo(n,
                                          IF n = 0 THEN ZERO ELSE block_info[n - 1].block_hash,
                                          hash), d)
        /\ UNCHANGED <<syncVars, exexVars>>

NextBlocks == StoreNextBlock

SpecBlocks == Init /\ [][NextBlocks]_vars

\* blocks 0..n were stored in order, each naming the hash of its predecessor
StoredInOrder(n) ==
    /\ DOMAIN block_info = 0..n
    /\ {call[1] : call \in applied} = 0..n
    /\ \A i \in 0..n :
          /\ block_info[i].block_number = i
          /\ block_info[i].parent_block_hash =
                IF i = 0 THEN ZERO ELSE block_info[i - 1].block_hash

\* C24: after blocks 0..n have been stored in order, genesis with parent hash
\* zero and each later block naming its predecessor's hash, block_hash_and_number
\* returns the hash of block n and the number n, after every store
C24_LatestIsLastStored ==
    \A n \in BlockNumbers :
        StoredInOrder(n) =>
            block_hash_and_number =
                Ok([block_hash |-> block_info[n].block_hash, block_number |-> n])

C24_Witness ==
    /\ StoredInOrder(1)
    /\ block_info[0].block_hash = 1
    /\ block_hash_and_number = Ok([block_hash |-> 74565, block_number |-> 1])


-----------------------------------------------------------------------------
(* The fetch stage with several requests in flight *)

\* the requests the fetch stage keeps in flight at most
FetchParallel == 3

\* the n_blocks_to_sync limit sync is called with
NBlocksToSync == {None, Some(0), Some(1), Some(3)}

\* the block after the last one the limit lets through, with no limit the block
\* after the head of the chain
FetchEnd ==
    IF config.n_blocks_to_sync = None THEN NBlocks + 1
    ELSE Min(NBlocks + 1, config.first_block + config.n_blocks_to_sync[1])

\* a request for the next block not yet asked for is issued
FetchRequest ==
    /\ pc["fetch"] = "run"
    /\ once_caught_up_cb = "pending"
    /\ Len(fetch_queue) < FetchParallel
    /\ next_block + Len(fetch_queue) < FetchEnd
    /\ fetch_queue' = Append(fetch_queue, <<next_block + Len(fetch_queue), "run">>)
    /\ UNCHANGED <<storeVars, pc, sync_ret, sync_error, stop_on_sync, backup_every_n_blocks, exexVars,
                   provider, config, telemetry, cancellation_token, blocked_at_cancel, fetch_stream,
                   block_conv, once_caught_up_cb, next_block, stream_ended, in_progress_queue,
                   conv_block, importing, imported, pending_polls, pending_cycle, first_error>>

\* a request in flight completes, whatever its place in the queue: with the block,
\* or with BlockNotFound past the head of the chain
FetchComplete ==
    /\ pc["fetch"] = "run"
    /\ \E i \in DOMAIN fetch_queue :
          /\ fetch_queue[i][2] = "run"
          /\ fetch_queue' = [fetch_queue EXCEPT ![i][2] =
                                IF fetch_queue[i][1] < NBlocks THEN "done" ELSE "not_found"]
    /\ UNCHANGED <<storeVars, pc, sync_ret, sync_error, stop_on_sync, backup_every_n_blocks, exexVars,
                   provider, config, telemetry, cancellation_token, blocked_at_cancel, fetch_stream,
                   block_conv, once_caught_up_cb, next_block, stream_ended, in_progress_queue,
                   conv_block, importing, imported, pending_polls, pending_cycle, first_error>>

\* mutant: a finished request is emitted whatever its place in the queue
FetchEmitUnordered ==
    /\ pc["fetch"] = "run"
    /\ buffer_unordered_next(fetch_queue) # 0
    /\ ~fetch_stream_receiver_closed
    /\ Len(fetch_stream) < FETCH_STREAM_CAPACITY
    /\ fetch_stream' = Append(fetch_stream, fetch_queue[buffer_unordered_next(fetch_queue)][1])
    /\ fetch_queue' = RemoveAt(fetch_queue, buffer_unordered_next(fetch_queue))
    /\ next_block' = next_block + 1
    /\ UNCHANGED <<storeVars, pc, sync_ret, sync_error, stop_on_sync, backup_every_n_blocks, exexVars,
                   provider, config, telemetry, cancellation_token, blocked_at_cancel, block_conv,
                   once_caught_up_cb, stream_ended, in_progress_queue, conv_block, importing,
                   imported, pending_polls, pending_cycle, first_error>>

\* the result of the oldest request, once there, is sent into fetch_stream; the
\* results of later requests wait behind it
FetchEmit ==
    /\ pc["fetch"] = "run"
    /\ buffered_next(fetch_queue) # 0
    /\ ~fetch_stream_receiver_closed
    /\ Len(fetch_stream) < FETCH_STREAM_CAPACITY
    /\ fetch_stream' = Append(fetch_stream, fetch_queue[buffered_next(fetch_queue)][1])
    /\ fetch_queue' = RemoveAt(fetch_queue, buffered_next(fetch_queue))
    /\ next_block' = next_block + 1
    /\ UNCHANGED <<storeVars, pc, sync_ret, sync_error, stop_on_sync, backup_every_n_blocks, exexVars,
                   provider, config, telemetry, cancellation_token, blocked_at_cancel, block_conv,
                   once_caught_up_cb, stream_ended, in_progress_queue, conv_block, importing,
                   imported, pending_polls, pending_cycle, first_error>>

\* the stream of fetches is over, at BlockNotFound from the oldest request or with
\* the limit exhausted: the requests still in flight are dropped and the caught-up
\* signal is sent
FetchStreamEnd ==
    /\ pc["fetch"] = "run"
    /\ once_caught_up_cb = "pending"
    /\ \/ fetch_queue # <<>> /\ fetch_queue[1][2] = "not_found"
       \/ fetch_queue = <<>> /\ next_block = FetchEnd
    /\ fetch_queue' = <<>>
    /\ once_caught_up_cb' = "sent"
    /\ UNCHANGED <<storeVars, pc, sync_ret, sync_error, stop_on_sync, backup_every_n_blocks, exexVars,
                   provider, config, telemetry, cancellation_token, blocked_at_cancel, fetch_stream,
                   block_conv, next_block, stream_ended, in_progress_queue, conv_block,
                   importing, imported, pending_polls, pending_cycle, first_error>>

\* l2_fetch_task returns Ok: on cancellation, when the receiver of fetch_stream is
\* gone, or once caught up with stop_on_sync
FetchBufferedStop ==
    /\ pc["fetch"] = "run"
    /\ \/ graceful_shutdown
       \/ fetch_stream_receiver_closed
       \/ once_caught_up_cb = "sent" /\ stop_on_sync
    /\ TaskExit("fetch", "ok")
    /\ once_caught_up_cb' \in {DropSender(once_caught_up_cb), "sent"}
    /\ fetch_queue' = <<>>
    /\ UNCHANGED <<storeVars, sync_ret, sync_error, stop_on_sync, backup_every_n_blocks, exexVars,
                   provider, config, telemetry, cancellation_token, blocked_at_cancel, fetch_stream,
                   block_conv, next_block, stream_ended, in_progress_queue, conv_block,
                   importing, imported, pending_polls, pending_cycle>>

l2_fetch_task_buffered ==
    /\ ~JoinSetDropped
    /\ (FetchRequest \/ FetchComplete \/ FetchEmit \/ FetchStreamEnd \/ FetchBufferedStop
        \/ FetchFail)

SyncStartFetch ==
    \E stop \in BOOLEAN, starting_block \in StartingBlocks, n_blocks \in NBlocksToSync :
        sync(stop, None, {EmptyDiff}, starting_block, n_blocks, None)

\* the fetch task alone, its output left in fetch_stream
NextFetch ==
    \/ SyncStartFetch
    \/ Cancel
    \/ l2_fetch_task_buffered
    \/ SyncJoin
    \/ Abort

SpecFetch == Init /\ [][NextFetch]_vars

\* C25: the fetch stage sends the blocks first_block, first_block + 1, ... with no
\* gap, duplicate or reordering, and at most n_blocks_to_sync of them when that
\* limit is set, also when the requests in flight complete out of order
C25_FetchInOrder ==
    /\ [](sync_ret # "idle" =>
            /\ \A i \in DOMAIN fetch_stream : fetch_stream[i] = config.first_block + i - 1
            /\ config.n_blocks_to_sync # None =>
                  next_block - config.first_block <= config.n_blocks_to_sync[1])
    /\ [][fetch_stream' # fetch_stream /\ fetch_stream' # <<>> =>
            /\ fetch_stream' = Append(fetch_stream, next_block)
            /\ next_block' = next_block + 1]_vars

\* a later request finished before its predecessor and waits behind it
C25_Witness ==
    /\ config.first_block = 2
    /\ config.n_blocks_to_sync = Some(3)
    /\ fetch_stream = <<2>>
    /\ fetch_queue = << <<3, "run">>, <<4, "done">> >>


-----------------------------------------------------------------------------
(* The pipeline with the store of the blocks it imports *)

l2_verify_and_apply_stored ==
    /\ ~JoinSetDropped
    /\ (ApplyRecv \/ ApplyImportStored \/ ApplyNotifyFail \/ ApplyImportFail \/ ApplyStop)

\* sync() with or without an ExEx manager
SyncStartExEx ==
    \E stop \in BOOLEAN, exex \in {None, Some("ExExManagerHandle")} :
        sync(stop, None, {EmptyDiff}, None, None, exex)

NextCommit ==
    \/ SyncStartExEx
    \/ Cancel
    \/ l2_fetch_task
    \/ l2_block_conversion_task
    \/ l2_verify_and_apply_stored
    \/ l2_pending_block_task
    \/ SyncJoin
    \/ Abort

SpecCommit == Init /\ [][NextCommit]_vars

\* block b is in the store under its number, with the header fields it was sent with
Retrievable(b) ==
    /\ b \in DOMAIN block_info
    /\ block_info[b] = DeoxysBlockInfo(b, IF b = 0 THEN ZERO ELSE BlockHash(b - 1), BlockHash(b))

\* C26: without cancellation from outside, when the commit stage returns Ok every
\* block that was sent on block_conv has been verified and applied, none is left in
\* the channel or in the stage, and each is retrievable from the store by its
\* number; with stop_on_sync the stage cancels the token only at that point
C26_CommitDrains ==
    /\ [](\A i \in DOMAIN imported : Retrievable(imported[i]))
    /\ [][~cancellation_token /\ pc["verify_apply"] # "ok" /\ pc'["verify_apply"] = "ok" =>
            /\ block_conv = <<>>
            /\ block_conv_sender_closed
            /\ importing = None
            /\ imported' = imported
            /\ cancellation_token' = stop_on_sync]_vars
    /\ [][~cancellation_token /\ cancellation_token' /\ pc' # pc =>
            /\ stop_on_sync
            /\ pc'["verify_apply"] = "ok"
            /\ block_conv = <<>> /\ importing = None]_vars

C26_Witness ==
    /\ pc["verify_apply"] = "ok"
    /\ stop_on_sync
    /\ cancellation_token
    /\ sync_ret = "Ok"
    /\ Len(imported) = NBlocks
    /\ \A b \in 0..(NBlocks - 1) : Retrievable(b)
    /\ latest_block_n = Some(NBlocks - 1)


-----------------------------------------------------------------------------
(* C27: the conversion stage emits one block for each block it receives *)

\* the blocks the conversion task has sent on block_conv, while its receiver lives
Emitted == imported \o importing \o block_conv

\* the blocks the conversion task has received and not yet sent
HeldInConversion == conv_block \o InConversion

\* every block fetched so far is, once and in order, emitted, held in the
\* conversion stage, or still in fetch_stream
C27_OneToOne ==
    (~cancellation_token /\ ~Exited("conversion") /\ ~Exited("verify_apply")) =>
        Emitted \o HeldInConversion \o fetch_stream = Sent

\* the step on which the conversion task returns Ok, with no cancellation so far
C27_ReturnsOk ==
    /\ ~cancellation_token
    /\ pc["conversion"] \in {"next", "send"}
    /\ pc'["conversion"] = "ok"

\* C27 as stated: absent cancellation and conversion errors the conversion stage
\* emits exactly one block for each block it receives, and when it returns Ok its
\* input channel is closed and every block it received has been emitted
C27_AsStated ==
    /\ []C27_OneToOne
    /\ [][C27_ReturnsOk =>
            /\ fetch_stream = <<>> /\ fetch_stream_sender_closed
            /\ HeldInConversion = <<>>]_vars

\* C27 amended: the same while the receiver of the output channel lives; when it
\* is gone output.send fails and the stage returns Ok with the block it could not
\* send, and the blocks behind it, not emitted
C27_OneToOneWhileReceiverLives ==
    /\ []C27_OneToOne
    /\ [][C27_ReturnsOk =>
            \/ /\ block_conv_receiver_closed
               /\ pc["conversion"] = "send" /\ conv_block # None
            \/ /\ fetch_stream = <<>> /\ fetch_stream_sender_closed
               /\ HeldInConversion = <<>>
               /\ ~Exited("verify_apply") => Emitted = Sent]_vars

C27_Witness ==
    /\ pc["conversion"] = "ok"
    /\ ~cancellation_token
    /\ ~Exited("verify_apply")
    /\ Len(Sent) = NBlocks
    /\ Emitted = Sent
    /\ sync_ret = "joining"


\* C28: every block whose verify-and-apply succeeded has exactly one block.import
\* message with its hash and number, sent before the next block is taken; the
\* messages are in commit order and there is none for any other block
C28_EventPerImport ==
    telemetry = [i \in DOMAIN imported |-> <<BlockHash(imported[i]), imported[i]>>]


\* C29: once the caught-up signal has been sent and received, l2_pending_block_task
\* runs to completion and returns Ok, whether or not the token is cancelled
C29_PendingTaskReturnsOk ==
    (once_caught_up_cb = "sent" /\ pc["pending"] = "poll") ~> (pc["pending"] = "ok")


\* C30: for every entity key E and block number N, the historical get(E, N) gives
\* the same result before and after any apply_pending or clear_pending call
C30_PendingInvisibleToHistory ==
    /\ \A d \in PendingDiffs :
          AllHistoricalGets(contract_db_store_pending(db, d)) = AllHistoricalGets(db)
    /\ AllHistoricalGets(contract_db_clear_pending(db)) = AllHistoricalGets(db)


-----------------------------------------------------------------------------
(* C31: a failed conversion cuts the sequence of delivered blocks *)

\* the blocks first_block, .., b - 1
BlocksBefore(b) == [i \in 1..(b - config.first_block) |-> config.first_block + i - 1]

\* C31: when the pre_validate of a block fails, the conversion task returns the
\* error with every block before it sent on block_conv and none behind it: the
\* conversions that finished behind it are dropped, and nothing is sent on
\* block_conv on that step or after it
C31_FailureCutsDelivery ==
    /\ [][pc["conversion"] = "next" /\ pc'["conversion"] = "err" =>
            /\ conv_block = None
            /\ ~Exited("verify_apply") => Emitted = BlocksBefore(in_progress_queue[1][1])]_vars
    /\ [][(pc'["conversion"] = "err" \/ Exited("conversion")) =>
            \/ block_conv' = block_conv
            \/ block_conv' = <<>>
            \/ block_conv # <<>> /\ block_conv' = Tail(block_conv)]_vars
    /\ [](pc["conversion"] = "err" /\ ~Exited("verify_apply") =>
            /\ Emitted = BlocksBefore(config.first_block + Len(Emitted))
            /\ Len(Emitted) < Len(Sent))

\* the conversion of block 2 failed: blocks 0 and 1 were delivered, blocks 3 and 4
\* were fetched and are not
C31_Witness ==
    /\ pc["conversion"] = "err"
    /\ ~Exited("verify_apply")
    /\ ~cancellation_token
    /\ Emitted = <<0, 1>>
    /\ Len(Sent) = NBlocks
    /\ sync_ret = "joining"


-----------------------------------------------------------------------------
(* Suspension points and the cancellation token *)

\* the waits wrapped in wait_or_graceful_shutdown: a task suspended there returns
\* as soon as the token is cancelled
WrappedWaitsObserveCancellation ==
    cancellation_token /\ ~JoinSetDropped =>
        /\ pc["fetch"] = "run" => ENABLED FetchStop
        /\ pc["conversion"] = "next" => ENABLED ConvStop
        /\ pc["verify_apply"] = "recv" => ENABLED ApplyStop
        /\ pc["pending"] = "poll" => ENABLED PendingStop

\* C32 as stated: every suspension point of a stage observes the cancellation
\* token: a task suspended at a channel receive, at the send to the next stage,
\* at the timer tick or at the wait for the caught-up signal can return once the
\* token is cancelled, whatever the other stages do
C32_EveryWaitObservesCancellation ==
    /\ WrappedWaitsObserveCancellation
    /\ cancellation_token /\ ~JoinSetDropped =>
        /\ pc["conversion"] = "send" => ENABLED ConvStop
        /\ pc["pending"] = "wait" => ENABLED (PendingCaughtUp \/ PendingStop)


-----------------------------------------------------------------------------
(* The conversion stage on a chain longer than its buffer *)

\* number of blocks of the long chain: more than buffered(10) takes at once
ConvBlocks == 14

l2_fetch_task_to(head) ==
    /\ ~JoinSetDropped
    /\ (FetchSendTo(head) \/ FetchCaughtUpAt(head) \/ FetchStopAt(head))

SyncStartConv == sync(TRUE, None, {EmptyDiff}, None, None, None)

NextConv ==
    \/ SyncStartConv
    \/ l2_fetch_task_to(ConvBlocks)
    \/ l2_block_conversion_task
    \/ l2_verify_and_apply_task

\* fetch, conversion and commit stages on the long chain
SpecConv == Init /\ [][NextConv]_vars

\* C33: at most CONVERSION_BUFFERED pre_validate calls are in the buffer of the
\* conversion stage, the block the stage is sending included; a raw block is
\* taken into conversion only with fewer than CONVERSION_BUFFERED in it and
\* nothing waiting to be sent, so that while block b is in conversion the block
\* CONVERSION_BUFFERED before it has been emitted to the commit stage
C33_BufferedLimit ==
    /\ [](/\ Len(HeldInConversion) <= CONVERSION_BUFFERED
          /\ ~Exited("verify_apply") =>
                \A i \in DOMAIN InConversion :
                    InConversion[i] - CONVERSION_BUFFERED >= config.first_block =>
                        \E j \in DOMAIN Emitted :
                            Emitted[j] = InConversion[i] - CONVERSION_BUFFERED)
    /\ [][Len(in_progress_queue') > Len(in_progress_queue) =>
            /\ Len(in_progress_queue) < CONVERSION_BUFFERED
            /\ conv_block = None]_vars

\* ten conversions are in flight, the oldest still running, and the eleventh raw
\* block waits in fetch_stream
C33_Witness ==
    /\ pc["conversion"] = "next"
    /\ Len(in_progress_queue) = CONVERSION_BUFFERED
    /\ in_progress_queue[1][2] = "run"
    /\ fetch_stream # <<>>
    /\ Head(fetch_stream) = in_progress_queue[1][1] + CONVERSION_BUFFERED


\* the three stages on the long chain, on a runtime that keeps polling every
\* task that can make a step
FairConv ==
    /\ SpecConv
    /\ WF_vars(l2_fetch_task_to(ConvBlocks))
    /\ WF_vars(l2_block_conversion_task)
    /\ WF_vars(l2_verify_and_apply_task)

-----------------------------------------------------------------------------
(* The periodic backup *)

\* C35: with an interval N >= 1 the commit of block b is followed by a backup
\* exactly when b mod N = 0, also for block 0, and never when no interval is
\* configured; a backup starts only on the commit of a block, and while it runs
\* no block is in verify-and-apply and the last block committed is the one that
\* triggered it: the next block is taken from block_conv only at recv(), after
\* the backup
C35_BackupEveryN ==
    /\ [][imported' # imported =>
            LET b == importing[1]
            IN  /\ backup_every_n_blocks = None => pc'["verify_apply"] # "backup"
                /\ backup_every_n_blocks # None /\ ~backup_check_panics =>
                        (pc'["verify_apply"] = "backup") = (b % backup_every_n_blocks[1] = 0)]_vars
    /\ [][/\ pc'["verify_apply"] = "backup" /\ pc["verify_apply"] # "backup" =>
                imported' # imported
          /\ importing' # None /\ importing' # importing =>
                pc["verify_apply"] = "recv"]_vars
    /\ [](pc["verify_apply"] = "backup" =>
            /\ backup_every_n_blocks # None
            /\ importing = None
            /\ imported # <<>>
            /\ imported[Len(imported)] % backup_every_n_blocks[1] = 0)

\* interval 2: backups ran after blocks 0 and 2 and none after block 1; the
\* backup for block 2 is running and block 3 waits in block_conv
C35_Witness ==
    /\ backup_every_n_blocks = Some(2)
    /\ pc["verify_apply"] = "backup"
    /\ imported = <<0, 1, 2>>
    /\ block_conv # <<>>
    /\ Head(block_conv) = 3

\* C37 as stated: the backup check is defined for every interval, 0 included: no
\* commit makes the commit stage panic
C37_BackupCheckDefined == pc["verify_apply"] # "panicked"


-----------------------------------------------------------------------------
(* Order of the apply_block calls *)

\* C36: apply_block calls for different block numbers commute: from every store
\* reached, two calls with different block numbers made in either order leave the
\* same records in the confirmed columns and the same result for every historical
\* get(E, N); any two orders of the same set of calls differ by such exchanges
C36_ApplyBlockCommutes ==
    \A n1 \in BlockNumbers, n2 \in BlockNumbers : \A d1 \in StateDiffs, d2 \in StateDiffs :
        n1 < n2 =>
            Unchanged(contract_db_store_block(contract_db_store_block(db, n1, d1), n2, d2),
                      contract_db_store_block(contract_db_store_block(db, n2, d2), n1, d1))

\* blocks 2 and 0 were applied in this order, with different values for the class
\* hash of contract 1: the gets at 0, 1 and 2 return what the calls in the order
\* 0, 2 would have left
C36_Witness ==
    /\ latest_block_n = Some(0)
    /\ applied = {<<2, Diff(<< <<1, 1>> >>, << <<1, 1>> >>, << <<<<1, 1>>, 1>> >>)>>,
                  <<0, Diff(<< <<1, 2>>, <<256, 2>> >>, <<>>, << <<<<1, 2>>, 2>> >>)>>}
    /\ get_contract_class_hash_at(DbBlockIdBlockN(0), 1) = Some(2)
    /\ get_contract_class_hash_at(DbBlockIdBlockN(1), 1) = Some(2)
    /\ get_contract_class_hash_at(DbBlockIdBlockN(2), 1) = Some(1)
    /\ db = contract_db_store_block(
                contract_db_store_block([col \in Columns |-> EmptyMap], 0,
                    Diff(<< <<1, 2>>, <<256, 2>> >>, <<>>, << <<<<1, 2>>, 2>> >>)),
                2, Diff(<< <<1, 1>> >>, << <<1, 1>> >>, << <<<<1, 1>>, 1>> >>))


-----------------------------------------------------------------------------
(* The Pragma dispatch ExEx: events and feed list *)

\* in the runs where the ExEx does not panic, every notification handled has its
\* FinishedHeight event, in order, and only the last one lacks it when its send failed
EventsWithoutPanic ==
    /\ exex_pc \in {"init", "next", "ok"} => events = notifications
    /\ exex_pc = "err" => events = SubSeq(notifications, 1, Len(notifications) - 1)

\* C38 as stated: the ExEx sends exactly one FinishedHeight(block_number) for
\* every notification it received, on every branch and in the order received; a
\* notification whose event could not be sent because the receiver of the events
\* is gone is left aside
C38_OneEventPerNotification == exex_pc # "err" => events = notifications

\* C39 as stated: element 0 of the feed list is the number of feed ids that
\* follow it, after every sequence of NewFeedId and RemovedFeedId events
C39_LengthPrefix == feed_ids[1] = Len(feed_ids) - 1

=============================================================================
